---- MODULE Spec2Model ----
(***************************************************************************)
(* A model of tcp-audit-tracefs-eventer.                                   *)
(*                                                                         *)
(* Spec    : the Eventer of main.go (Event / Close), one goroutine calling *)
(*           Event() and one calling Close(), the kernel writing lines to  *)
(*           the trace pipe, and the bufio.Scanner between them.           *)
(* SpecTI  : the traceFSTracingInstance (enable / open / close / disable)  *)
(*           over a model of the tracefs instances directory.              *)
(* SpecPair : two traceFSTracingInstance values enabled and disabled in   *)
(*           any interleaving on the same tracefs.                         *)
(* SpecFields : the for loop of getTaggedFields of main.go, one iteration  *)
(*           a step, on every cursor of a few bytes; SpecFieldsLive is    *)
(*           the same with the loop scheduled while it can run.            *)
(* SpecMounts : getFirstMountpoint (and getTraceFSMountpoint of main.go)   *)
(*           called once on a few lines of /proc/mounts, with a reader or  *)
(*           a field parser that may fail.                                 *)
(* SpecNew : the constructor New of main.go, called on a tracefs that may   *)
(*           already hold the instance directory, with one step failing.   *)
(* SpecLive : Spec with the goroutine in Close() scheduled and the mutex   *)
(*           released by a goroutine that holds it and can go on.          *)
(* SpecDeduce : deduceTracepoint called once on a tracefs whose two        *)
(*           tracepoint paths exist, are missing or cannot be read.        *)
(* SpecParse : the parsers (parseCommand, toEvent, canonicaliseState, of   *)
(*           main.go and of the newer event parser) applied once to a line *)
(*           drawn from a set of well-formed and malformed lines.          *)
(***************************************************************************)
EXTENDS Integers, Sequences, FiniteSets, TLC

(***************************************************************************)
(* Bounds of the model.                                                    *)
(***************************************************************************)
\* lines the kernel writes to the trace pipe in one behaviour
MaxLines == 2
\* calls of Event() made by the reading goroutine
MaxEventCalls == 3
\* calls of Close() made by the closing goroutine
MaxCloseCalls == 2
\* calls made on the two tracing instances that share a tracefs
MaxPairCalls == 3
\* bytes of a cursor handed to the loop of getTaggedFields
MaxCursorLen == 5
\* lines of /proc/mounts the scanner hands out in one call of getFirstMountpoint
MaxMountLines == 2

(***************************************************************************)
(* Go error values.  An error is the sequence of the values on its         *)
(* errors.Unwrap chain, outermost first; the nil error is the empty        *)
(* sequence.  Every errors.New call site and every sentinel has its own    *)
(* name, since Go compares error values by identity, not by message.       *)
(***************************************************************************)
Nil == <<>>

NewError(msg) == <<msg>>

\* fmt.Errorf("msg: %w", err)
Wrap(msg, err) == <<msg>> \o err

\* errors.Is(err, target)
errorsIs(err, target) == \E i \in DOMAIN err : err[i] = target

\* the sentinels the tests look for in the chain
ErrEventerClosed == "ErrEventerClosed"
ioErrUnexpectedEOF == "io.ErrUnexpectedEOF"

\* errors of the runtime the model draws from
ioEOF == <<"io.EOF">>
osErrClosed == <<"os.ErrClosed">>
errEIO == <<"EIO">>
errENOENT == <<"ENOENT">>
errEBUSY == <<"EBUSY">>

(***************************************************************************)
(* Trace lines.  A line is [id, kind]; the kind is what the parser makes   *)
(* of its bytes.                                                           *)
(***************************************************************************)
Kinds == {"empty", "irrelevant", "malformed", "valid"}

\* what an unterminated fragment of a line can parse as (never empty)
FragKinds == {"irrelevant", "malformed", "valid"}

NoEvent == 0

\* main.go:28 declares the sentinel without a value: it is the nil error
errIrrelevantEvent == Nil

\* a parser failure other than the irrelevant-event classification
errParse == NewError("source port not present in event")

\* toEvent on a line of the given kind: (event, err)
toEvent(line) ==
    CASE line.kind = "valid" -> [event |-> line.id, err |-> Nil]
      [] line.kind = "irrelevant" -> [event |-> NoEvent, err |-> errIrrelevantEvent]
      [] OTHER -> [event |-> NoEvent, err |-> errParse]

VARIABLES
    closed,        \* Eventer.closed
    closedMutex,   \* Eventer.closedMutex: "free", or the goroutine whose Lock() it holds
    tracePipe,     \* Eventer.tracePipe: "open" or "closed" (the *os.File)
    instance,      \* the directory Eventer.instance exists
    scanner,       \* Eventer.scanner: [buf, frag, err]
    pipe,          \* lines written by the kernel and not yet read
    nproduced,     \* number of lines written so far
    tokens,        \* ids of the lines Scan() has handed out, in order
    ev,            \* the goroutine calling Event(): [pc, n, afterClose, seen, byClose]
    evRet,         \* what the last Event() call returned
    cl,            \* the goroutine calling Close(): [pc, n, err]
    clRet          \* what the last Close() call returned

VARIABLES
    fs,            \* the instance directories of tracefs: path -> [exists, tracing_on, enable]
    files,         \* the *os.File values os.Open has returned: [name, open]
    ti,            \* the traceFSTracingInstance: [path, pipe]
    tiCalls,       \* the methods called on it so far, in order
    tiErrs,        \* the error each of those calls returned
    tiFaultFree,   \* no call so far met a filesystem or collaborator fault
    tiRet          \* what the last call returned

evars == <<closed, closedMutex, tracePipe, instance, scanner, pipe, nproduced,
           tokens, ev, evRet, cl, clRet>>

tivars == <<fs, files, ti, tiCalls, tiErrs, tiFaultFree, tiRet>>

VARIABLES
    newRet,        \* what the last call of the constructor New() did and returned
    deduced,       \* the last call of deduceTracepoint: what it found and returned
    parsed         \* the last line handed to a parser and what came back

nvars == <<newRet, deduced>>

pvars == <<parsed>>

VARIABLES
    pair,          \* two traceFSTracingInstance values on the one tracefs, and their calls
    loop,          \* the for loop of getTaggedFields: [pc, in, str, fields, iter, err]
    mounts         \* the last call of getFirstMountpoint: its input and what it returned

ovars == <<pair, loop, mounts>>

vars == <<evars, tivars, nvars, pvars, ovars>>

\* the error both closed-flag checks of Event() return
errClosedEventer == NewError("attempted read from closed eventer")

InitEventer ==
    /\ closed = FALSE
    /\ closedMutex = "free"
    /\ tracePipe = "open"
    /\ instance = TRUE
    /\ scanner = [buf |-> <<>>, frag |-> "none", err |-> Nil]
    /\ pipe = <<>>
    /\ nproduced = 0
    /\ tokens = <<>>
    /\ ev = [pc |-> "idle", n |-> 0, afterClose |-> FALSE, seen |-> <<>>,
             waiting |-> FALSE, byClose |-> FALSE]
    /\ evRet = [n |-> 0, event |-> NoEvent, err |-> Nil, path |-> "none", seen |-> <<>>,
                afterClose |-> FALSE, waiting |-> FALSE, byClose |-> FALSE,
                closedAtCheck |-> FALSE]
    /\ cl = [pc |-> "idle", n |-> 0, err |-> Nil, closeErr |-> Nil]
    /\ clRet = [n |-> 0, err |-> Nil, prior |-> FALSE, released |-> FALSE,
                closeErr |-> Nil, cleanupInstanceErr |-> Nil]

(***************************************************************************)
(* The kernel appends a line to the ring buffer of the instance.           *)
(***************************************************************************)
Produce ==
    /\ UNCHANGED <<tivars, nvars, pvars, ovars>>
    /\ instance
    /\ nproduced < MaxLines
    /\ \E k \in Kinds :
          pipe' = Append(pipe, [id |-> nproduced + 1, kind |-> k])
    /\ nproduced' = nproduced + 1
    /\ UNCHANGED <<closed, closedMutex, tracePipe, instance, scanner, tokens, ev, evRet,
                   cl, clRet>>

(***************************************************************************)
(* Event()                                                                 *)
(***************************************************************************)
EventReturn(event, err, path, seen, atCheck) ==
    /\ ev' = [ev EXCEPT !.pc = "idle", !.seen = seen]
    /\ evRet' = [n |-> ev.n, event |-> event, err |-> err, path |-> path, seen |-> seen,
                 afterClose |-> ev.afterClose, waiting |-> ev.waiting,
                 byClose |-> ev.byClose, closedAtCheck |-> atCheck]

EventCall ==
    /\ UNCHANGED <<tivars, nvars, pvars, ovars>>
    /\ ev.pc = "idle"
    /\ ev.n < MaxEventCalls
    /\ ev' = [pc |-> "lock", n |-> ev.n + 1, afterClose |-> clRet.n > 0,
              seen |-> <<>>, waiting |-> FALSE, byClose |-> FALSE]
    /\ UNCHANGED <<closed, closedMutex, tracePipe, instance, scanner, pipe, nproduced,
                   tokens, evRet, cl, clRet>>

EventLock ==
    /\ UNCHANGED <<tivars, nvars, pvars, ovars>>
    /\ ev.pc = "lock"
    /\ closedMutex = "free"
    /\ closedMutex' = "reader"
    /\ ev' = [ev EXCEPT !.pc = "check"]
    /\ UNCHANGED <<closed, tracePipe, instance, scanner, pipe, nproduced, tokens, evRet,
                   cl, clRet>>

\* main.go:104-108 with the mutex kept while the pipe is read
EventCheckClosed_LockKept ==
    /\ UNCHANGED <<tivars, nvars, pvars, ovars>>
    /\ ev.pc = "check"
    /\ IF closed
         THEN EventReturn(NoEvent, errClosedEventer, "entry", ev.seen, closed)
         ELSE ev' = [ev EXCEPT !.pc = "scan"] /\ UNCHANGED evRet
    /\ UNCHANGED <<closed, closedMutex, tracePipe, instance, scanner, pipe, nproduced,
                   tokens, cl, clRet>>

EventCheckClosed ==
    /\ UNCHANGED <<tivars, nvars, pvars, ovars>>
    /\ ev.pc = "check"
    /\ IF closed
         THEN /\ EventReturn(NoEvent, errClosedEventer, "entry", ev.seen, closed)
              /\ UNCHANGED closedMutex
         ELSE /\ closedMutex' = "free"
              /\ ev' = [ev EXCEPT !.pc = "scan"]
              /\ UNCHANGED evRet
    /\ UNCHANGED <<closed, tracePipe, instance, scanner, pipe, nproduced, tokens, cl, clRet>>

\* main.go:129-143 with every parser error treated as the irrelevant-event one
EventHandleLine_ParseErrorSkipped(line, seen) ==
    IF line.kind = "empty" \/ toEvent(line).err # Nil
      THEN /\ ev' = [ev EXCEPT !.seen = seen]
           /\ UNCHANGED evRet
      ELSE EventReturn(toEvent(line).event, Nil, "ok", seen, FALSE)

\* main.go:129-143: the body of the loop, for the token Scan() handed out
EventHandleLine(line, seen) ==
    IF line.kind = "empty"
      THEN /\ ev' = [ev EXCEPT !.seen = seen]
           /\ UNCHANGED evRet
      ELSE LET r == toEvent(line) IN
           IF r.err # Nil
             THEN IF r.err = errIrrelevantEvent
                    THEN /\ ev' = [ev EXCEPT !.seen = seen]
                         /\ UNCHANGED evRet
                    ELSE EventReturn(NoEvent, Wrap("creating event from trace pipe", r.err),
                                     "parse", seen, FALSE)
             ELSE EventReturn(r.event, Nil, "ok", seen, FALSE)

\* Scan() finds a complete line in the buffer
EventScanLine ==
    /\ UNCHANGED <<tivars, nvars, pvars, ovars>>
    /\ ev.pc = "scan"
    /\ scanner.buf # <<>>
    /\ scanner' = [scanner EXCEPT !.buf = Tail(@)]
    /\ tokens' = Append(tokens, Head(scanner.buf).id)
    /\ EventHandleLine(Head(scanner.buf), Append(ev.seen, Head(scanner.buf)))
    /\ UNCHANGED <<closed, closedMutex, tracePipe, instance, pipe, nproduced, cl, clRet>>

\* Scan() after a failed read: the unterminated rest of the buffer is the final token
EventScanFinalToken ==
    /\ UNCHANGED <<tivars, nvars, pvars, ovars>>
    /\ ev.pc = "scan"
    /\ scanner.buf = <<>>
    /\ scanner.err # Nil
    /\ scanner.frag # "none"
    /\ scanner' = [scanner EXCEPT !.frag = "none"]
    /\ tokens' = Append(tokens, Head(pipe).id)
    /\ LET line == [id |-> Head(pipe).id, kind |-> scanner.frag]
       IN  EventHandleLine(line, Append(ev.seen, line))
    /\ UNCHANGED <<closed, closedMutex, tracePipe, instance, pipe, nproduced, cl, clRet>>

\* Scan() has no complete line: it reads from the pipe.  The read fails on a
\* closed file, may fail or hit end-of-stream otherwise, returns the bytes there
\* are (whole lines, and possibly the start of the next one), or blocks.
EventScanRead ==
    /\ UNCHANGED <<tivars, nvars, pvars, ovars>>
    /\ ev.pc = "scan"
    /\ scanner.buf = <<>>
    /\ scanner.err = Nil
    /\ \/ /\ tracePipe = "closed"
          /\ scanner' = [scanner EXCEPT !.err = osErrClosed]
          /\ ev' = [ev EXCEPT !.byClose = TRUE]
          /\ UNCHANGED pipe
       \/ /\ tracePipe = "open"
          /\ \E e \in {errEIO, ioEOF} : scanner' = [scanner EXCEPT !.err = e]
          /\ UNCHANGED <<pipe, ev>>
       \/ /\ tracePipe = "open"
          /\ \E k \in 0..Len(pipe), f \in FragKinds \cup {"none"} :
                /\ k > 0 \/ (scanner.frag = "none" /\ f # "none")
                /\ f # "none" => (k < Len(pipe) /\ pipe[k + 1].kind # "empty")
                /\ scanner' = [scanner EXCEPT !.buf = SubSeq(pipe, 1, k), !.frag = f]
                /\ pipe' = SubSeq(pipe, k + 1, Len(pipe))
          /\ UNCHANGED ev
    /\ UNCHANGED <<closed, closedMutex, tracePipe, instance, nproduced, tokens, evRet,
                   cl, clRet>>

\* Scan() returns false (main.go:113-127)
EventScanFail ==
    /\ UNCHANGED <<tivars, nvars, pvars, ovars>>
    /\ ev.pc = "scan"
    /\ scanner.buf = <<>>
    /\ scanner.err # Nil
    /\ scanner.frag = "none"
    /\ IF scanner.err # ioEOF
         THEN /\ ev' = [ev EXCEPT !.pc = "errlock"]
              /\ UNCHANGED evRet
         ELSE EventReturn(NoEvent, NewError("event trace pipe returned unexpected EOF"),
                          "eof", ev.seen, FALSE)
    /\ UNCHANGED <<closed, closedMutex, tracePipe, instance, scanner, pipe, nproduced,
                   tokens, cl, clRet>>

EventErrLock ==
    /\ UNCHANGED <<tivars, nvars, pvars, ovars>>
    /\ ev.pc = "errlock"
    /\ closedMutex = "free"
    /\ closedMutex' = "reader"
    /\ ev' = [ev EXCEPT !.pc = "errcheck"]
    /\ UNCHANGED <<closed, tracePipe, instance, scanner, pipe, nproduced, tokens, evRet,
                   cl, clRet>>

\* main.go:115-121 without the look at the closed flag
EventErrCheckClosed_FlagNotChecked ==
    /\ UNCHANGED <<tivars, nvars, pvars, ovars>>
    /\ ev.pc = "errcheck"
    /\ closedMutex' = "free"
    /\ EventReturn(NoEvent, Wrap("scanning trace pipe for event", scanner.err),
                   "scanerr", ev.seen, closed)
    /\ UNCHANGED <<closed, tracePipe, instance, scanner, pipe, nproduced, tokens, cl, clRet>>

EventErrCheckClosed ==
    /\ UNCHANGED <<tivars, nvars, pvars, ovars>>
    /\ ev.pc = "errcheck"
    /\ IF closed
         THEN /\ EventReturn(NoEvent, errClosedEventer, "scanerr", ev.seen, closed)
              /\ UNCHANGED closedMutex
         ELSE /\ closedMutex' = "free"
              /\ EventReturn(NoEvent, Wrap("scanning trace pipe for event", scanner.err),
                             "scanerr", ev.seen, closed)
    /\ UNCHANGED <<closed, tracePipe, instance, scanner, pipe, nproduced, tokens, cl, clRet>>

(***************************************************************************)
(* Close()                                                                 *)
(***************************************************************************)
\* the reading goroutine sits in a read that has nothing to return
BlockedInRead ==
    /\ ev.pc = "scan"
    /\ scanner.buf = <<>>
    /\ scanner.err = Nil
    /\ pipe = <<>>
    /\ tracePipe = "open"

CloseCall ==
    /\ UNCHANGED <<tivars, nvars, pvars, ovars>>
    /\ cl.pc = "idle"
    /\ cl.n < MaxCloseCalls
    /\ cl' = [pc |-> "lock", n |-> cl.n + 1, err |-> Nil, closeErr |-> Nil]
    /\ ev' = [ev EXCEPT !.waiting = BlockedInRead]
    /\ UNCHANGED <<closed, closedMutex, tracePipe, instance, scanner, pipe, nproduced,
                   tokens, evRet, clRet>>

CloseLock ==
    /\ UNCHANGED <<tivars, nvars, pvars, ovars>>
    /\ cl.pc = "lock"
    /\ closedMutex = "free"
    /\ closedMutex' = "closer"
    /\ cl' = [cl EXCEPT !.pc = "set"]
    /\ UNCHANGED <<closed, tracePipe, instance, scanner, pipe, nproduced, tokens, ev,
                   evRet, clRet>>

\* main.go:148-152 without the assignment of the flag
CloseSetClosed_FlagNotSet ==
    /\ UNCHANGED <<tivars, nvars, pvars, ovars>>
    /\ cl.pc = "set"
    /\ closedMutex' = "free"
    /\ cl' = [cl EXCEPT !.pc = "pipe"]
    /\ UNCHANGED <<closed, tracePipe, instance, scanner, pipe, nproduced, tokens, ev,
                   evRet, clRet>>

CloseSetClosed ==
    /\ UNCHANGED <<tivars, nvars, pvars, ovars>>
    /\ cl.pc = "set"
    /\ closed' = TRUE
    /\ closedMutex' = "free"
    /\ cl' = [cl EXCEPT !.pc = "pipe"]
    /\ UNCHANGED <<tracePipe, instance, scanner, pipe, nproduced, tokens, ev, evRet, clRet>>

\* closeTracePipe: os.File.Close fails on a file that is already closed, and
\* reports the error of the close system call on one that is open
closeTracePipe(file, fault) ==
    IF file # "open" THEN Wrap("closing trace pipe", osErrClosed)
    ELSE IF fault THEN Wrap("closing trace pipe", errEIO)
    ELSE Nil

CloseTracePipe ==
    /\ UNCHANGED <<tivars, nvars, pvars, ovars>>
    /\ cl.pc = "pipe"
    /\ \E fault \in BOOLEAN :
          LET closeErr == closeTracePipe(tracePipe, fault)
          IN  cl' = [cl EXCEPT !.pc = "instance",
                               !.closeErr = closeErr,
                               !.err = IF closeErr # Nil
                                         THEN Wrap("closing event trace pipe", closeErr)
                                         ELSE @]
    /\ tracePipe' = "closed"
    /\ UNCHANGED <<closed, closedMutex, instance, scanner, pipe, nproduced, tokens, ev,
                   evRet, clRet>>

\* cleanupInstance: os.Remove fails when the directory is not there, and may be
\* refused by the filesystem when it is
CloseCleanupInstance ==
    /\ UNCHANGED <<tivars, nvars, pvars, ovars>>
    /\ cl.pc = "instance"
    /\ \E rmErr \in (IF instance THEN {Nil, errEBUSY} ELSE {errENOENT}) :
          LET cleanupInstanceErr ==
                 IF rmErr # Nil THEN Wrap("removing tracing instance", rmErr) ELSE Nil
              err == IF cleanupInstanceErr # Nil
                       THEN Wrap("cleaning-up trace instance", cleanupInstanceErr)
                       ELSE cl.err
          IN  /\ instance' = (instance /\ rmErr # Nil)
              /\ cl' = [cl EXCEPT !.pc = "idle", !.err = err]
              /\ clRet' = [n |-> cl.n, err |-> err, prior |-> clRet.released,
                           released |-> clRet.released
                                        \/ (cl.err = Nil /\ err = Nil),
                           closeErr |-> cl.closeErr,
                           cleanupInstanceErr |-> cleanupInstanceErr]
    /\ UNCHANGED <<closed, closedMutex, tracePipe, scanner, pipe, nproduced, tokens, ev,
                   evRet>>

(***************************************************************************)
(* The tracing instance (traceFSTracingInstance) and the tracefs it acts   *)
(* on.  A path is the sequence of its components; a file's contents is the *)
(* sequence of its bytes.                                                  *)
(***************************************************************************)
\* calls made on the tracing instance in one behaviour
MaxTICalls == 4

\* the number of calls of the constructor New()
MaxNewCalls == 2

Mountpoint == "/sys/kernel/tracing"

Tracepoints == {"sock/inet_sock_set_state", "tcp/tcp_set_state"}

\* the names the UID provider can hand out
UIDs == {"u1", "u2"}

\* the zero value of traceFSTracingInstance.path
NoPath == <<>>

\* traceFSMountpoint + "/instances/" + ti.uidProvider.uid()
InstancePath(mountpoint, uid) == <<mountpoint, "instances", uid>>

InstancePaths == {InstancePath(Mountpoint, u) : u \in UIDs}

\* ti.path + "/trace_pipe"
TracePipePath(path) == path \o <<"trace_pipe">>

\* []byte("1\n")
OneNewline == <<"1", "\n">>

\* strings.Trim(contents, "\n") of the test helpers that read the switches back
RECURSIVE TrimNewlines(_)
TrimNewlines(bytes) ==
    IF bytes = <<>> THEN <<>>
    ELSE IF Head(bytes) = "\n" THEN TrimNewlines(Tail(bytes))
    ELSE IF bytes[Len(bytes)] = "\n" THEN TrimNewlines(SubSeq(bytes, 1, Len(bytes) - 1))
    ELSE bytes

\* an instance directory as the filesystem creates it, and a path with no directory
FreshDir == [exists |-> TRUE, tracing_on |-> <<>>, enable |-> [tp \in Tracepoints |-> <<>>]]
NoDir == [exists |-> FALSE, tracing_on |-> <<>>, enable |-> [tp \in Tracepoints |-> <<>>]]

DirExists(dirs, path) == path \in DOMAIN dirs /\ dirs[path].exists

errMountpoint == <<"mountpoint retriever error">>
errTracepoint == <<"tracepoint deducer error">>
errEACCES == <<"EACCES">>
errEEXIST == <<"EEXIST">>

EnableFaults == {"none", "mountpoint", "tracepoint", "mkdir", "enableTracePoint",
                 "enableTracing"}

\* part_003:85-91
enableTracing(self, dirs, fault) ==
    LET writeErr == IF fault = "enableTracing" THEN errEACCES
                    ELSE IF ~DirExists(dirs, self.path) THEN errENOENT
                    ELSE Nil
    IN  IF writeErr # Nil
          THEN [fs |-> dirs, err |-> Wrap("setting tracing_on", writeErr)]
          ELSE [fs |-> [dirs EXCEPT ![self.path].tracing_on = OneNewline], err |-> Nil]

\* part_003:93-100 with the failure of the write not returned
enableTracePoint_ErrorNotReturned(self, dirs, tracepoint, fault) ==
    IF fault = "enableTracePoint" \/ ~DirExists(dirs, self.path)
      THEN [fs |-> dirs, err |-> Nil]
      ELSE [fs |-> [dirs EXCEPT ![self.path].enable[tracepoint] = OneNewline],
            err |-> Nil]

\* part_003:93-100
enableTracePoint(self, dirs, tracepoint, fault) ==
    LET writeErr == IF fault = "enableTracePoint" THEN errEACCES
                    ELSE IF ~DirExists(dirs, self.path) THEN errENOENT
                    ELSE Nil
    IN  IF writeErr # Nil
          THEN [fs |-> dirs, err |-> Wrap("enabling tracepoint %q", writeErr)]
          ELSE [fs |-> [dirs EXCEPT ![self.path].enable[tracepoint] = OneNewline],
                err |-> Nil]

\* part_003:63-71 with the two writes in the other order
enableSwitches_TracingOnFirst(self, dirs, tracepoint, fault, steps) ==
    LET on == enableTracing(self, dirs, fault)
        steps2 == Append(steps, "enableTracing")
    IN  IF on.err # Nil
          THEN [ti |-> self, fs |-> on.fs, err |-> Wrap("enabling tracing", on.err),
                steps |-> steps2]
        ELSE
          LET tp == enableTracePoint(self, on.fs, tracepoint, fault)
              steps3 == Append(steps2, "enableTracePoint")
          IN  IF tp.err # Nil
                THEN [ti |-> self, fs |-> tp.fs,
                      err |-> Wrap("enabling tracepoint", tp.err), steps |-> steps3]
                ELSE [ti |-> self, fs |-> tp.fs, err |-> Nil, steps |-> steps3]

\* part_003:63-71: the tracepoint's switch, then the instance's
enableSwitches(self, dirs, tracepoint, fault, steps) ==
    LET tp == enableTracePoint(self, dirs, tracepoint, fault)
        steps2 == Append(steps, "enableTracePoint")
    IN  IF tp.err # Nil
          THEN [ti |-> self, fs |-> tp.fs, err |-> Wrap("enabling tracepoint", tp.err),
                steps |-> steps2]
        ELSE
          LET on == enableTracing(self, tp.fs, fault)
              steps3 == Append(steps2, "enableTracing")
          IN  IF on.err # Nil
                THEN [ti |-> self, fs |-> on.fs,
                      err |-> Wrap("enabling tracing", on.err), steps |-> steps3]
                ELSE [ti |-> self, fs |-> on.fs, err |-> Nil, steps |-> steps3]

\* part_003:45-72.  The result is the instance, the filesystem, the error
\* returned and the steps the call went through.
enable(self, dirs, tracepoint, uid, fault) ==
    IF fault = "mountpoint"
      THEN [ti |-> self, fs |-> dirs,
            err |-> Wrap("obtaining tracefs mountpoint", errMountpoint),
            steps |-> <<"retrieveMountpoint">>]
    ELSE IF fault = "tracepoint"
      THEN [ti |-> self, fs |-> dirs,
            err |-> Wrap("getting tracepoint", errTracepoint),
            steps |-> <<"retrieveMountpoint", "deduceTracepoint">>]
    ELSE
      LET self1 == [self EXCEPT !.path = InstancePath(Mountpoint, uid)]
          mkdirErr == IF fault = "mkdir" THEN errEACCES
                      ELSE IF DirExists(dirs, self1.path) THEN errEEXIST
                      ELSE Nil
          dirs1 == IF mkdirErr = Nil THEN [dirs EXCEPT ![self1.path] = FreshDir] ELSE dirs
          steps1 == <<"retrieveMountpoint", "deduceTracepoint", "uid", "Mkdir">>
      IN  IF mkdirErr # Nil /\ mkdirErr # errEEXIST
            THEN [ti |-> self1, fs |-> dirs1,
                  err |-> Wrap("making instance directory", mkdirErr),
                  steps |-> steps1]
            ELSE enableSwitches(self1, dirs1, tracepoint, fault, steps1)

\* part_003:76-83 with nothing removed
disable_RemovesNothing(self, dirs, fault) ==
    IF ~DirExists(dirs, self.path) \/ ~fault
      THEN [fs |-> dirs, err |-> Nil]
      ELSE [fs |-> dirs, err |-> Wrap("removing tracing instance", errEBUSY)]

\* part_003:76-83 with os.Remove in the place of os.RemoveAll: a path that does
\* not exist is an error
disable_RemoveNotTolerant(self, dirs, fault) ==
    IF ~DirExists(dirs, self.path)
      THEN [fs |-> dirs, err |-> Wrap("removing tracing instance", errENOENT)]
    ELSE IF fault
      THEN [fs |-> dirs, err |-> Wrap("removing tracing instance", errEBUSY)]
    ELSE [fs |-> [dirs EXCEPT ![self.path] = NoDir], err |-> Nil]

\* part_003:76-83.  os.RemoveAll succeeds on the empty path and on a path that
\* does not exist.
disable(self, dirs, fault) ==
    IF ~DirExists(dirs, self.path)
      THEN [fs |-> dirs, err |-> Nil]
    ELSE IF fault
      THEN [fs |-> dirs, err |-> Wrap("removing tracing instance", errEBUSY)]
    ELSE [fs |-> [dirs EXCEPT ![self.path] = NoDir], err |-> Nil]

\* part_003:104-112
open(self, dirs, fls, fault) ==
    LET openErr == IF ~DirExists(dirs, self.path) THEN errENOENT
                   ELSE IF fault THEN errEACCES
                   ELSE Nil
        tracePipeFile == [name |-> TracePipePath(self.path), open |-> TRUE]
    IN  IF openErr # Nil
          THEN [ti |-> self, files |-> fls, reader |-> 0,
                err |-> Wrap("opening trace_pipe", openErr)]
          ELSE [ti |-> [self EXCEPT !.pipe = Len(fls) + 1],
                files |-> Append(fls, tracePipeFile),
                reader |-> Len(fls) + 1, err |-> Nil]

\* part_003:115-122.  ti.pipe.Name() on the nil *os.File panics.
close(self, fls) ==
    IF self.pipe = 0
      THEN [files |-> fls, err |-> Nil, panic |-> TRUE]
    ELSE IF ~fls[self.pipe].open
      THEN [files |-> fls, err |-> Wrap("closing trace pipe", osErrClosed), panic |-> FALSE]
    ELSE [files |-> [fls EXCEPT ![self.pipe].open = FALSE], err |-> Nil, panic |-> FALSE]

InitTI ==
    /\ fs = [p \in InstancePaths |-> NoDir]
    /\ files = <<>>
    /\ ti = [path |-> NoPath, pipe |-> 0]
    /\ tiCalls = <<>>
    /\ tiErrs = <<>>
    /\ tiFaultFree = TRUE
    /\ tiRet = [op |-> "none", err |-> Nil, fault |-> "none", steps |-> <<>>,
                tracepoint |-> "", reader |-> 0, panic |-> FALSE]

TICanCall == Len(tiCalls) < MaxTICalls /\ ~tiRet.panic

TIEnable ==
    /\ UNCHANGED <<evars, nvars, pvars, ovars>>
    /\ TICanCall
    /\ \E tracepoint \in Tracepoints, uid \in UIDs, fault \in EnableFaults :
          LET r == enable(ti, fs, tracepoint, uid, fault)
          IN  /\ ti' = r.ti
              /\ fs' = r.fs
              /\ tiRet' = [op |-> "enable", err |-> r.err, fault |-> fault,
                           steps |-> r.steps, tracepoint |-> tracepoint, reader |-> 0,
                           panic |-> FALSE]
              /\ tiFaultFree' = (tiFaultFree /\ fault = "none")
    /\ tiCalls' = Append(tiCalls, "enable")
    /\ tiErrs' = Append(tiErrs, tiRet'.err)
    /\ UNCHANGED files

TIOpen ==
    /\ UNCHANGED <<evars, nvars, pvars, ovars>>
    /\ TICanCall
    /\ \E fault \in BOOLEAN :
          LET r == open(ti, fs, files, fault)
          IN  /\ ti' = r.ti
              /\ files' = r.files
              /\ tiRet' = [op |-> "open", err |-> r.err,
                           fault |-> IF fault THEN "open" ELSE "none",
                           steps |-> <<>>, tracepoint |-> "", reader |-> r.reader,
                           panic |-> FALSE]
              /\ tiFaultFree' = (tiFaultFree /\ ~fault)
    /\ tiCalls' = Append(tiCalls, "open")
    /\ tiErrs' = Append(tiErrs, tiRet'.err)
    /\ UNCHANGED fs

TIClose ==
    /\ UNCHANGED <<evars, nvars, pvars, ovars>>
    /\ TICanCall
    /\ LET r == close(ti, files)
       IN  /\ files' = r.files
           /\ tiRet' = [op |-> "close", err |-> r.err, fault |-> "none",
                        steps |-> <<>>, tracepoint |-> "", reader |-> 0, panic |-> r.panic]
    /\ tiCalls' = Append(tiCalls, "close")
    /\ tiErrs' = Append(tiErrs, tiRet'.err)
    /\ UNCHANGED <<fs, ti, tiFaultFree>>

TIDisable ==
    /\ UNCHANGED <<evars, nvars, pvars, ovars>>
    /\ TICanCall
    /\ \E fault \in BOOLEAN :
          LET r == disable(ti, fs, fault)
          IN  /\ fs' = r.fs
              /\ tiRet' = [op |-> "disable", err |-> r.err,
                           fault |-> IF fault THEN "disable" ELSE "none",
                           steps |-> <<>>, tracepoint |-> "", reader |-> 0,
                           panic |-> FALSE]
              /\ tiFaultFree' = (tiFaultFree /\ ~fault)
    /\ tiCalls' = Append(tiCalls, "disable")
    /\ tiErrs' = Append(tiErrs, tiRet'.err)
    /\ UNCHANGED <<files, ti>>

(***************************************************************************)
(* Two tracing instances on the same tracefs.  Each is a                   *)
(* traceFSTracingInstance of its own (part_003:22-27) with its own path;   *)
(* the directories under <mountpoint>/instances are shared.  The UID       *)
(* source is injected (part_003:26), so both may be handed the same name.  *)
(***************************************************************************)
Instances == {"first", "second"}

OtherInstance(who) == IF who = "first" THEN "second" ELSE "first"

InitPair ==
    pair = [inst |-> [who \in Instances |->
                        [ti |-> [path |-> NoPath, pipe |-> 0], enabled |-> FALSE]],
            n |-> 0,
            op |-> [who |-> "", name |-> "none", err |-> Nil]]

PairCanCall == pair.n < MaxPairCalls

\* enable() of part_003:45-72 called on one of the two instances
PairEnable ==
    /\ UNCHANGED <<evars, nvars, pvars, files, ti, tiCalls, tiErrs, tiFaultFree, tiRet, loop, mounts>>
    /\ PairCanCall
    /\ \E who \in Instances, tracepoint \in Tracepoints, uid \in UIDs :
          LET r == enable(pair.inst[who].ti, fs, tracepoint, uid, "none")
          IN  /\ fs' = r.fs
              /\ pair' = [inst |-> [pair.inst EXCEPT ![who] =
                                      [ti |-> r.ti, enabled |-> (r.err = Nil)]],
                          n |-> pair.n + 1,
                          op |-> [who |-> who, name |-> "enable", err |-> r.err]]

\* disable() of part_003:76-83 called on one of the two instances
PairDisable ==
    /\ UNCHANGED <<evars, nvars, pvars, files, ti, tiCalls, tiErrs, tiFaultFree, tiRet, loop, mounts>>
    /\ PairCanCall
    /\ \E who \in Instances :
          LET r == disable(pair.inst[who].ti, fs, FALSE)
          IN  /\ fs' = r.fs
              /\ pair' = [inst |-> [pair.inst EXCEPT ![who].enabled =
                                      (@ /\ r.err # Nil)],
                          n |-> pair.n + 1,
                          op |-> [who |-> who, name |-> "disable", err |-> r.err]]

(***************************************************************************)
(* The constructor New() of main.go:45-101, on the same filesystem.        *)
(***************************************************************************)
NewFaults == {"none", "mountpoint", "tracepoint", "mkdir", "enableTracing",
              "enableTracePoint", "open"}

\* main.go:65-69 with the deferred clean-up left out
newCleanup_NotDeferred(dirs, fls, instancePath, err, steps, rmFault) ==
    [fs |-> dirs, files |-> fls, err |-> err, steps |-> steps,
     instance |-> NoPath, tracePipe |-> 0]

\* main.go:65-69: the constructor returns err with the deferred function run,
\* which calls cleanupInstance (os.Remove) and drops its error
newCleanup(dirs, fls, instancePath, err, steps, rmFault) ==
    [fs |-> IF rmFault THEN dirs ELSE [dirs EXCEPT ![instancePath] = NoDir],
     files |-> fls, err |-> err, steps |-> Append(steps, "cleanupInstance"),
     instance |-> NoPath, tracePipe |-> 0]

\* main.go:45-101.  The result is the filesystem, the open files, the error
\* returned, the functions called in order, and the fields of the Eventer.
New(dirs, fls, tracepoint, uid, fault, rmFault) ==
    LET instancePath == InstancePath(Mountpoint, uid)
        failed(err, steps) == [fs |-> dirs, files |-> fls, err |-> err, steps |-> steps,
                               instance |-> NoPath, tracePipe |-> 0]
        mkdirErr == IF fault = "mkdir" THEN errEACCES
                    ELSE IF DirExists(dirs, instancePath) THEN errEEXIST
                    ELSE Nil
        dirs1 == [dirs EXCEPT ![instancePath] = FreshDir]
        dirs2 == [dirs1 EXCEPT ![instancePath].tracing_on = OneNewline]
        dirs3 == [dirs2 EXCEPT ![instancePath].enable[tracepoint] = OneNewline]
        s1 == <<"getTraceFSMountpoint">>
        s2 == Append(s1, "getTracePoint")
        s3 == Append(s2, "createTracingInstance")
        s4 == Append(s3, "enableTracing")
        s5 == Append(s4, "enableTracePoint")
        s6 == Append(s5, "openTracePipe")
    IN  IF fault = "mountpoint"
          THEN failed(Wrap("obtaining tracefs mountpoint", errMountpoint), s1)
        ELSE IF fault = "tracepoint"
          THEN failed(Wrap("getting tracepoint", errTracepoint), s2)
        ELSE IF mkdirErr # Nil
          THEN failed(Wrap("creating tracing instance",
                           Wrap("making instance directory", mkdirErr)), s3)
        ELSE IF fault = "enableTracing"
          THEN newCleanup(dirs1, fls, instancePath,
                          Wrap("enabling tracing", Wrap("turning tracing on", errEACCES)),
                          s4, rmFault)
        ELSE IF fault = "enableTracePoint"
          THEN newCleanup(dirs2, fls, instancePath,
                          Wrap("enabling tracepoint",
                               Wrap("enabling tracepoint", errEACCES)),
                          s5, rmFault)
        ELSE IF fault = "open"
          THEN newCleanup(dirs3, fls, instancePath,
                          Wrap("opening event trace pipe",
                               Wrap("opening trace_pipe", errEACCES)),
                          s6, rmFault)
        ELSE [fs |-> dirs3,
              files |-> Append(fls, [name |-> TracePipePath(instancePath), open |-> TRUE]),
              err |-> Nil, steps |-> s6,
              instance |-> instancePath, tracePipe |-> Len(fls) + 1]

InitNew ==
    newRet = [n |-> 0, uid |-> "", tracepoint |-> "", fault |-> "none", rmFault |-> FALSE,
              err |-> Nil, steps |-> <<>>, instance |-> NoPath, tracePipe |-> 0]

NewCall ==
    /\ newRet.n < MaxNewCalls
    /\ \E tracepoint \in Tracepoints, uid \in UIDs, fault \in NewFaults, rmFault \in BOOLEAN :
          LET r == New(fs, files, tracepoint, uid, fault, rmFault)
          IN  /\ fs' = r.fs
              /\ files' = r.files
              /\ newRet' = [n |-> newRet.n + 1, uid |-> uid, tracepoint |-> tracepoint,
                            fault |-> fault, rmFault |-> rmFault, err |-> r.err,
                            steps |-> r.steps, instance |-> r.instance,
                            tracePipe |-> r.tracePipe]
    /\ UNCHANGED <<evars, ti, tiCalls, tiErrs, tiFaultFree, tiRet, pvars, deduced, ovars>>

(***************************************************************************)
(* The tracepoint deducer (uid_provider_test.go:41-69; getTracePoint of     *)
(* main.go:211-233 is the same probes on a mount point it is handed).       *)
(***************************************************************************)
errENOTDIR == <<"ENOTDIR">>

\* what os.Stat of a tracepoint's directory can return
StatResults == {Nil, errENOENT, errEACCES, errEIO, errENOTDIR}

\* os.IsNotExist
osIsNotExist(err) == err = errENOENT

\* what the mountpoint retriever can return
MountpointResults ==
    { [mountpoint |-> Mountpoint, err |-> Nil],
      [mountpoint |-> "/sys/kernel/debug/tracing", err |-> Nil],
      [mountpoint |-> "", err |-> errMountpoint] }

newerTracepoint == "sock/inet_sock_set_state"
olderTracepoint == "tcp/tcp_set_state"

\* deduceTracepoint with every error of a probe taken for "not found"
deduceTracepoint_AnyErrorIsNotFound(retrieved, stat) ==
    IF retrieved.err # Nil
      THEN [tracepoint |-> "", probes |-> <<>>,
            err |-> Wrap("obtaining tracefs mountpoint", retrieved.err)]
    ELSE IF stat[newerTracepoint] # Nil
      THEN IF stat[olderTracepoint] # Nil
             THEN [tracepoint |-> "", probes |-> <<newerTracepoint, olderTracepoint>>,
                   err |-> NewError("required tracepoint not available")]
             ELSE [tracepoint |-> olderTracepoint,
                   probes |-> <<newerTracepoint, olderTracepoint>>, err |-> Nil]
    ELSE [tracepoint |-> newerTracepoint, probes |-> <<newerTracepoint>>, err |-> Nil]

\* uid_provider_test.go:41-69: retrieved is what retrieveMountpoint returned,
\* stat[tp] what os.Stat(<mountpoint>/events/<tp>) returns; probes are the
\* paths it asked for, in order
deduceTracepoint(retrieved, stat) ==
    IF retrieved.err # Nil
      THEN [tracepoint |-> "", probes |-> <<>>,
            err |-> Wrap("obtaining tracefs mountpoint", retrieved.err)]
    ELSE IF stat[newerTracepoint] # Nil /\ ~osIsNotExist(stat[newerTracepoint])
      THEN [tracepoint |-> "", probes |-> <<newerTracepoint>>,
            err |-> Wrap("checking if inet_sock_set_state event present",
                         stat[newerTracepoint])]
    ELSE IF stat[newerTracepoint] # Nil /\ osIsNotExist(stat[newerTracepoint])
      THEN IF stat[olderTracepoint] # Nil /\ ~osIsNotExist(stat[olderTracepoint])
             THEN [tracepoint |-> "", probes |-> <<newerTracepoint, olderTracepoint>>,
                   err |-> Wrap("checking if tcp_set_state event present",
                                stat[olderTracepoint])]
           ELSE IF stat[olderTracepoint] # Nil /\ osIsNotExist(stat[olderTracepoint])
             THEN [tracepoint |-> "", probes |-> <<newerTracepoint, olderTracepoint>>,
                   err |-> NewError("required tracepoint not available")]
           ELSE [tracepoint |-> olderTracepoint,
                 probes |-> <<newerTracepoint, olderTracepoint>>, err |-> Nil]
    ELSE [tracepoint |-> newerTracepoint, probes |-> <<newerTracepoint>>, err |-> Nil]

NoDeduce ==
    [pc |-> "idle", retrieved |-> [mountpoint |-> "", err |-> Nil],
     stat |-> [tp \in Tracepoints |-> Nil], tracepoint |-> "", probes |-> <<>>,
     err |-> Nil]

\* deduceTracepoint has not been called
InitDeduce == deduced = NoDeduce

\* the deducer is about to be called on some mount point retrieval and tracefs
InitDeduceInput ==
    deduced \in {[NoDeduce EXCEPT !.pc = "input", !.retrieved = r, !.stat = st] :
                    r \in MountpointResults, st \in [Tracepoints -> StatResults]}

DeduceTracepointCall ==
    /\ deduced.pc = "input"
    /\ LET r == deduceTracepoint(deduced.retrieved, deduced.stat)
       IN  deduced' = [deduced EXCEPT !.pc = "done", !.tracepoint = r.tracepoint,
                                      !.probes = r.probes, !.err = r.err]
    /\ UNCHANGED <<evars, tivars, pvars, newRet, ovars>>

\* no line has been handed to a parser
InitParse == parsed = [pc |-> "idle"]

\* getTaggedFields has not been entered
InitLoop == loop = [pc |-> "idle"]

\* getFirstMountpoint has not been called
InitMounts == mounts = [pc |-> "idle"]

(***************************************************************************)
(* The specifications.                                                     *)
(***************************************************************************)
Init == InitEventer /\ InitTI /\ InitNew /\ InitDeduce /\ InitParse /\ InitPair /\ InitLoop /\ InitMounts

Next ==
    \/ Produce
    \/ EventCall
    \/ EventLock
    \/ EventCheckClosed
    \/ EventScanLine
    \/ EventScanFinalToken
    \/ EventScanRead
    \/ EventScanFail
    \/ EventErrLock
    \/ EventErrCheckClosed
    \/ CloseCall
    \/ CloseLock
    \/ CloseSetClosed
    \/ CloseTracePipe
    \/ CloseCleanupInstance

Spec == Init /\ [][Next]_vars

\* the goroutine that called Close() is scheduled: each of its steps is taken
\* when it stays possible
CloseFairness ==
    /\ WF_vars(CloseLock)
    /\ WF_vars(CloseSetClosed)
    /\ WF_vars(CloseTracePipe)
    /\ WF_vars(CloseCleanupInstance)

\* the goroutine in Event() is scheduled while it holds the mutex: the check
\* of the flag that follows a Lock() is taken (the read of the pipe, and the
\* calls of Event() and Close(), are under no such condition)
CriticalSectionFairness ==
    /\ WF_vars(EventCheckClosed)
    /\ WF_vars(EventErrCheckClosed)

SpecLive == Spec /\ CloseFairness /\ CriticalSectionFairness

NextTI ==
    \/ TIEnable
    \/ TIOpen
    \/ TIClose
    \/ TIDisable

SpecTI == Init /\ [][NextTI]_vars

NextPair ==
    \/ PairEnable
    \/ PairDisable

SpecPair == Init /\ [][NextPair]_vars

NextNew ==
    \/ NewCall

SpecNew == Init /\ [][NextNew]_vars

InitD == InitEventer /\ InitTI /\ InitNew /\ InitDeduceInput /\ InitParse /\ InitPair /\ InitLoop /\ InitMounts

NextDeduce ==
    \/ DeduceTracepointCall

SpecDeduce == InitD /\ [][NextDeduce]_vars

(***************************************************************************)
(* Claims about the Eventer, checked under Spec.                           *)
(***************************************************************************)
\* the mutex is locked and the goroutine that locked it is not in a critical
\* section any more: no Unlock() will ever come
MutexLeaked ==
    \/ closedMutex = "reader" /\ ev.pc \notin {"check", "errcheck"}
    \/ closedMutex = "closer" /\ cl.pc # "set"

EventReturned == evRet.n > 0

LastSeen(seen) == seen[Len(seen)]

\* C1: an Event() call that sat blocked in the pipe read, no line read yet,
\* when Close() was called, and whose read the closing of the pipe then failed,
\* returns no event and an error that has ErrEventerClosed in its chain.
C1_BlockedEventReturnsClosedSentinel ==
    (EventReturned /\ evRet.waiting /\ evRet.byClose /\ evRet.seen = <<>>) =>
        /\ evRet.event = NoEvent
        /\ errorsIs(evRet.err, ErrEventerClosed)

\* C2: every Event() call that starts after a Close() has returned gives back
\* the closed error and no event, and none of them blocks on the mutex.
C2_EventAfterCloseReturnsClosed ==
    /\ (EventReturned /\ evRet.afterClose) =>
          (evRet.event = NoEvent /\ evRet.err = errClosedEventer)
    /\ ~(ev.afterClose /\ ev.pc = "lock" /\ MutexLeaked)

C4_RepeatedCloseIdempotent ==
    (clRet.n > 0 /\ clRet.prior) => (clRet.err = Nil /\ closed /\ ~instance)

\* C5: Scan() hands the lines out in order, each once; an Event() call that
\* returns the outcome of a line returns that of the first line it saw that is
\* neither empty nor irrelevant, having skipped the empty and irrelevant ones.
C5_EventSkipsEmptyAndIrrelevant ==
    /\ \A i, j \in DOMAIN tokens : i < j => tokens[i] < tokens[j]
    /\ (EventReturned /\ evRet.path \in {"ok", "parse"}) =>
          /\ evRet.seen # <<>>
          /\ \A i \in 1..(Len(evRet.seen) - 1) :
                evRet.seen[i].kind \in {"empty", "irrelevant"}
          /\ LastSeen(evRet.seen).kind \in {"valid", "malformed"}
          /\ LastSeen(evRet.seen).kind = "valid" =>
                (evRet.event = LastSeen(evRet.seen).id /\ evRet.err = Nil)
          /\ LastSeen(evRet.seen).kind = "malformed" =>
                (evRet.event = NoEvent /\ evRet.err # Nil)

\* C6: once the parser has failed on a line with an error that is not the
\* irrelevant-event one, the call has returned: no event, an error with the
\* parser's error in its chain, and that line is the last the call read.
C6_ParserErrorSurfaced ==
    \A i \in DOMAIN ev.seen :
        LET r == toEvent(ev.seen[i])
        IN  (ev.seen[i].kind # "empty" /\ r.err # Nil /\ r.err # errIrrelevantEvent) =>
                /\ i = Len(ev.seen)
                /\ ev.pc = "idle"
                /\ evRet.n = ev.n
                /\ evRet.event = NoEvent
                /\ \A k \in DOMAIN r.err : errorsIs(evRet.err, r.err[k])

\* C6 witness: a call returned the parser's error for a malformed line while a
\* further line of the same read was still unread in the buffer.
C6_Witness ==
    /\ EventReturned
    /\ evRet.path = "parse"
    /\ evRet.seen # <<>>
    /\ LastSeen(evRet.seen).kind = "malformed"
    /\ errorsIs(evRet.err, errParse[1])
    /\ scanner.buf # <<>>

\* C7: when Scan() fails at end-of-stream with no read error, Event() returns
\* no event and an error that has io.ErrUnexpectedEOF in its chain.
C7_EndOfStreamIsUnexpectedEOF ==
    (EventReturned /\ evRet.path = "eof") =>
        /\ evRet.event = NoEvent
        /\ errorsIs(evRet.err, ioErrUnexpectedEOF)

(***************************************************************************)
(* Claims about the tracing instance, checked under SpecTI.                *)
(***************************************************************************)
Lifecycle == <<"enable", "open", "close", "disable">>

IsPrefix(s, t) == Len(s) <= Len(t) /\ s = SubSeq(t, 1, Len(s))

\* C8: while the calls made are enable(), open(), close(), disable() in that
\* order and no fault occurred, the last call succeeded; open() returned an open
\* reader on <path>/trace_pipe, with <path> = <mountpoint>/instances/<uid>, and
\* after disable() that directory does not exist.
C8_LifecycleSucceeds ==
    (tiCalls # <<>> /\ IsPrefix(tiCalls, Lifecycle) /\ tiFaultFree) =>
        /\ tiRet.err = Nil
        /\ ~tiRet.panic
        /\ ti.path \in InstancePaths
        /\ tiRet.op = "open" =>
              /\ tiRet.reader \in DOMAIN files
              /\ files[tiRet.reader].open
              /\ files[tiRet.reader].name = ti.path \o <<"trace_pipe">>
        /\ tiRet.op \in {"enable", "open", "close"} => fs[ti.path].exists
        /\ tiRet.op = "disable" => ~fs[ti.path].exists

\* C8 witness: the four calls were made in order with no fault.
C8_Witness == tiCalls = Lifecycle /\ tiFaultFree

StepsUpTo(fault) ==
    CASE fault = "mountpoint" -> <<"retrieveMountpoint">>
      [] fault = "tracepoint" -> <<"retrieveMountpoint", "deduceTracepoint">>
      [] fault = "mkdir" -> <<"retrieveMountpoint", "deduceTracepoint", "uid", "Mkdir">>
      [] fault = "enableTracePoint" ->
            <<"retrieveMountpoint", "deduceTracepoint", "uid", "Mkdir", "enableTracePoint">>
      [] OTHER ->
            <<"retrieveMountpoint", "deduceTracepoint", "uid", "Mkdir", "enableTracePoint",
              "enableTracing">>

\* the error the failing step itself reports
StepError(fault) ==
    CASE fault = "mountpoint" -> errMountpoint
      [] fault = "tracepoint" -> errTracepoint
      [] OTHER -> errEACCES

\* the directory at path as it is once Mkdir has run on it
AfterMkdir(dirs, path) == IF dirs[path].exists THEN dirs[path] ELSE FreshDir

\* C10: an enable() in which a step fails returns an error with that step's
\* error in its chain and goes through no later step; it leaves what the earlier
\* steps did: a failure before or in Mkdir leaves the filesystem as it was, a
\* failure of the enable write leaves the directory with both files as Mkdir
\* left them, a failure of the tracing_on write leaves the directory with the
\* tracepoint enabled; and only disable() ever removes a directory.
C10_EnableFailureLeavesEarlierSteps ==
    [][/\ (tiCalls' # tiCalls /\ tiRet'.op = "enable" /\ tiRet'.fault # "none") =>
            LET f == tiRet'.fault
                p == ti'.path
            IN  /\ tiRet'.err # Nil
                /\ \A k \in DOMAIN StepError(f) : errorsIs(tiRet'.err, StepError(f)[k])
                /\ tiRet'.steps = StepsUpTo(f)
                /\ f \in {"mountpoint", "tracepoint"} => (fs' = fs /\ ti' = ti)
                /\ f = "mkdir" => fs' = fs
                /\ f = "enableTracePoint" =>
                      (fs' = [fs EXCEPT ![p] = AfterMkdir(fs, p)])
                /\ f = "enableTracing" =>
                      (fs' = [fs EXCEPT ![p] = [AfterMkdir(fs, p) EXCEPT
                                  !.enable[tiRet'.tracepoint] = OneNewline]])
       /\ \A q \in InstancePaths :
            (fs[q].exists /\ ~fs'[q].exists) => tiRet'.op = "disable"
      ]_vars

\* C10 witness: enable() failed at the tracing_on write and the directory it
\* made, tracepoint enabled, is still there.
C10_Witness ==
    /\ tiRet.op = "enable"
    /\ tiRet.fault = "enableTracing"
    /\ tiRet.err # Nil
    /\ fs[ti.path].exists
    /\ fs[ti.path].enable[tiRet.tracepoint] = OneNewline
    /\ fs[ti.path].tracing_on = <<>>

\* the number of enable() calls made so far
NumEnables == Cardinality({i \in DOMAIN tiCalls : tiCalls[i] = "enable"})

C12_CloseWithoutHandleReturnsError ==
    [][(tiCalls' # tiCalls /\ tiRet'.op = "close"
          /\ (ti.pipe = 0 \/ ~files[ti.pipe].open)) =>
            (~tiRet'.panic /\ tiRet'.err # Nil)
      ]_vars

(***************************************************************************)
(* Claims about the constructor, checked under SpecNew.                    *)
(***************************************************************************)
\* the step of New() that fails: the injected fault, or Mkdir on a directory
\* that exists already
NewFailingStep(fault, existed) ==
    IF fault \in {"mountpoint", "tracepoint", "mkdir"} THEN fault
    ELSE IF existed THEN "exists"
    ELSE fault

\* the error that step reports
NewStepError(step) ==
    CASE step = "mountpoint" -> errMountpoint
      [] step = "tracepoint" -> errTracepoint
      [] step = "exists" -> errEEXIST
      [] OTHER -> errEACCES

\* the steps that make up enabling the instance, and the step that opens it
NewEnableSteps == <<"getTraceFSMountpoint", "getTracePoint", "createTracingInstance",
                    "enableTracing", "enableTracePoint">>

InSeq(x, seq) == \E i \in DOMAIN seq : seq[i] = x

C14_CloseReportsEveryFailure ==
    clRet.n > 0 =>
        /\ tracePipe = "closed"
        /\ (clRet.err = Nil) <=> (clRet.closeErr = Nil /\ clRet.cleanupInstanceErr = Nil)
        /\ \A k \in DOMAIN clRet.closeErr : errorsIs(clRet.err, clRet.closeErr[k])
        /\ \A k \in DOMAIN clRet.cleanupInstanceErr :
              errorsIs(clRet.err, clRet.cleanupInstanceErr[k])

(***************************************************************************)
(* Byte strings.  A []byte or a string is the sequence of its bytes, each  *)
(* a one-character string; an index is 0-based as in Go.                   *)
(***************************************************************************)
colonSpaceBytes == <<":", " ">>
spaceBytes == <<" ">>
equalsBytes == <<"=">>

\* bytes.Index(s, sep): the index of the first occurrence of sep in s, or -1
bytesIndex(s, sep) ==
    LET hits == {i \in 0..(Len(s) - Len(sep)) : SubSeq(s, i + 1, i + Len(sep)) = sep}
    IN  IF hits = {} THEN -1 ELSE CHOOSE i \in hits : \A j \in hits : i <= j

\* the slice expression s[lo:hi], for 0 <= lo <= hi <= len(s)
Slice(s, lo, hi) == SubSeq(s, lo + 1, hi)

\* the values the runtime panics with on a bad index and on a bad slice bound
errIndexOutOfRange == "runtime error: index out of range"
errSliceBounds == "runtime error: slice bounds out of range"

\* panic.go:12-21 with the recovered value left out of the error
panicToErr_PanicValueDropped(errString, panicData) == NewError(errString)

\* panic.go:12-21: the recovered panic value, a runtime.Error, wrapped with %w
panicToErr(errString, panicData) == Wrap(errString, <<panicData>>)

\* main.go:474-483: the same with the prefix fixed
main_panicToErr(panicData) == Wrap("parsing next field", <<panicData>>)

\* for idx = 0; cmd[idx] == ' '; idx++ {}: the index the loop stops at, or -1
\* when it runs off the end of cmd and cmd[idx] panics
RECURSIVE stripLeadingSpaces(_, _)
stripLeadingSpaces(cmd, idx) ==
    IF idx >= Len(cmd) THEN -1
    ELSE IF cmd[idx + 1] = " " THEN stripLeadingSpaces(cmd, idx + 1)
    ELSE idx

\* part_001:193-194: for ; (*str)[idx] != '-' && idx > 0; idx-- {}
RECURSIVE scanBackToDash(_, _)
scanBackToDash(str, idx) ==
    IF str[idx + 1] # "-" /\ idx > 0 THEN scanBackToDash(str, idx - 1) ELSE idx

\* part_001:183-209 with the scan stopping at the first dash of the line
parseCommand_FirstDash(str) ==
    LET colon == bytesIndex(str, colonSpaceBytes)
        idx == bytesIndex(str, <<"-">>)
    IN  IF colon = -1 \/ idx <= 0 \/ idx > colon
          THEN [command |-> <<>>, str |-> str, err |-> <<ioErrUnexpectedEOF>>]
        ELSE
          LET cmd == Slice(str, 0, idx)
              sp == stripLeadingSpaces(cmd, 0)
          IN  IF sp = -1
                THEN [command |-> <<>>, str |-> Slice(str, idx + 1, Len(str)),
                      err |-> panicToErr("parsing next field", errIndexOutOfRange)]
                ELSE [command |-> Slice(cmd, sp, Len(cmd)),
                      str |-> Slice(str, idx + 1, Len(str)), err |-> Nil]

\* part_001:183-209.  The result is the command, the cursor *str and the error.
parseCommand(str) ==
    LET colon == bytesIndex(str, colonSpaceBytes)
    IN  IF colon = -1
          THEN [command |-> <<>>, str |-> str, err |-> <<ioErrUnexpectedEOF>>]
        ELSE
          LET idx == scanBackToDash(str, colon)
          IN  IF idx = 0
                THEN [command |-> <<>>, str |-> str, err |-> <<ioErrUnexpectedEOF>>]
              ELSE
                LET cmd == Slice(str, 0, idx)
                    rest == Slice(str, idx + 1, Len(str))
                    sp == stripLeadingSpaces(cmd, 0)
                IN  IF sp = -1
                      THEN [command |-> <<>>, str |-> rest,
                            err |-> panicToErr("parsing next field", errIndexOutOfRange)]
                      ELSE [command |-> Slice(cmd, sp, Len(cmd)), str |-> rest,
                            err |-> Nil]

\* main.go:409-410: for ; (*str)[idx] != '-'; idx-- {}: the index of the dash,
\* or -1 when idx leaves the slice and (*str)[idx] panics
RECURSIVE main_scanBackToDash(_, _)
main_scanBackToDash(str, idx) ==
    IF idx < 0 THEN -1
    ELSE IF str[idx + 1] # "-" THEN main_scanBackToDash(str, idx - 1)
    ELSE idx

\* main.go:403-420, the parseCommand of the older file
main_parseCommand(str) ==
    LET idx == main_scanBackToDash(str, bytesIndex(str, colonSpaceBytes) - 1)
    IN  IF idx = -1
          THEN [command |-> <<>>, str |-> str,
                err |-> main_panicToErr(errIndexOutOfRange)]
        ELSE
          LET cmd == Slice(str, 0, idx)
              rest == Slice(str, idx + 1, Len(str))
              sp == stripLeadingSpaces(cmd, 0)
          IN  IF sp = -1
                THEN [command |-> <<>>, str |-> rest,
                      err |-> main_panicToErr(errIndexOutOfRange)]
                ELSE [command |-> Slice(cmd, sp, Len(cmd)), str |-> rest, err |-> Nil]

(***************************************************************************)
(* The trace lines the parsers are applied to.  A line of the fixed format *)
(* is kept as its parts, each with the bytes it is written with and the    *)
(* value those bytes stand for, and is rendered to bytes by LineBytes.     *)
(***************************************************************************)
\* the value of a tag the line does not carry
Absent == [text |-> <<"absent">>, ok |-> FALSE, num |-> 0, canon |-> <<>>]

Text(t) == [text |-> t, ok |-> TRUE, num |-> 0, canon |-> t]
Number(t, n) == [text |-> t, ok |-> TRUE, num |-> n, canon |-> t]
State(t, c) == [text |-> t, ok |-> TRUE, num |-> 0, canon |-> c]
Address(t, ip) == [text |-> t, ok |-> TRUE, num |-> 0, canon |-> ip]
Malformed(t) == [text |-> t, ok |-> FALSE, num |-> 0, canon |-> <<>>]

familyInet == <<"A", "F", "_", "I", "N", "E", "T">>
protocolTCP == <<"I", "P", "P", "R", "O", "T", "O", "_", "T", "C", "P">>

Families == {Absent, Text(familyInet), Text(<<"A", "F", "_", "U", "N", "I", "X">>)}
Protocols == {Absent, Text(protocolTCP), Text(<<"I", "P", "P", "R", "O", "T", "O", "_", "F", "O", "O">>)}

\* the kernel's state mnemonics with the canonical name of each, and values
\* that are no state
KernelStates ==
    { State(<<"T", "C", "P", "_", "E", "S", "T", "A", "B", "L", "I", "S", "H", "E", "D">>, <<"E", "S", "T", "A", "B", "L", "I", "S", "H", "E", "D">>), State(<<"T", "C", "P", "_", "S", "Y", "N", "_", "S", "E", "N", "T">>, <<"S", "Y", "N", "-", "S", "E", "N", "T">>),
      State(<<"T", "C", "P", "_", "S", "Y", "N", "_", "R", "E", "C", "V">>, <<"S", "Y", "N", "-", "R", "E", "C", "E", "I", "V", "E", "D">>), State(<<"T", "C", "P", "_", "F", "I", "N", "_", "W", "A", "I", "T", "1">>, <<"F", "I", "N", "-", "W", "A", "I", "T", "-", "1">>),
      State(<<"T", "C", "P", "_", "F", "I", "N", "_", "W", "A", "I", "T", "2">>, <<"F", "I", "N", "-", "W", "A", "I", "T", "-", "2">>), State(<<"T", "C", "P", "_", "T", "I", "M", "E", "_", "W", "A", "I", "T">>, <<"T", "I", "M", "E", "-", "W", "A", "I", "T">>),
      State(<<"T", "C", "P", "_", "C", "L", "O", "S", "E">>, <<"C", "L", "O", "S", "E", "D">>), State(<<"T", "C", "P", "_", "C", "L", "O", "S", "E", "_", "W", "A", "I", "T">>, <<"C", "L", "O", "S", "E", "-", "W", "A", "I", "T">>),
      State(<<"T", "C", "P", "_", "L", "A", "S", "T", "_", "A", "C", "K">>, <<"L", "A", "S", "T", "-", "A", "C", "K">>), State(<<"T", "C", "P", "_", "L", "I", "S", "T", "E", "N">>, <<"L", "I", "S", "T", "E", "N">>),
      State(<<"T", "C", "P", "_", "C", "L", "O", "S", "I", "N", "G">>, <<"C", "L", "O", "S", "I", "N", "G">>) }

NoStates == {Malformed(<<"F", "O", "O", "_", "B", "A", "R">>), Malformed(<<"T", "C", "P", "_", "N", "E", "W", "_", "S", "Y", "N", "_", "R", "E", "C", "V">>), Malformed(<<"T", "C", "P", "_", "F", "I", "N", "_", "W", "A", "I", "T", "3">>),
             Malformed(<<"T", "C", "P", "_">>)}

\* the tags of the line the variations start from
BaseTags ==
    [family |-> Text(familyInet), protocol |-> Text(protocolTCP),
     sport |-> Number(<<"4", "4", "4", "0", "6">>, 44406), dport |-> Number(<<"8", "0">>, 80),
     saddr |-> Address(<<"1", "0", ".", "0", ".", "0", ".", "1">>, <<10, 0, 0, 1>>),
     daddr |-> Address(<<"1", "9", "2", ".", "1", "6", "8", ".", "1", "2", "2", ".", "3", "8">>, <<192, 168, 122, 38>>),
     oldstate |-> State(<<"T", "C", "P", "_", "S", "Y", "N", "_", "S", "E", "N", "T">>, <<"S", "Y", "N", "-", "S", "E", "N", "T">>),
     newstate |-> State(<<"T", "C", "P", "_", "E", "S", "T", "A", "B", "L", "I", "S", "H", "E", "D">>, <<"E", "S", "T", "A", "B", "L", "I", "S", "H", "E", "D">>),
     v6 |-> FALSE]

MandatoryTags == {"sport", "dport", "saddr", "daddr", "oldstate", "newstate"}

\* one mandatory tag left out or written with a value that does not convert
Defects ==
    {[tag |-> t, value |-> Absent] : t \in MandatoryTags}
    \cup {[tag |-> t, value |-> Malformed(<<"h", "t", "t", "p">>)] : t \in {"sport", "dport"}}
    \cup {[tag |-> t, value |-> Malformed(<<"1", "0", ".", "0", ".", "0">>)] : t \in {"saddr", "daddr"}}
    \cup {[tag |-> t, value |-> Malformed(<<"F", "O", "O", "_", "B", "A", "R">>)] : t \in {"oldstate", "newstate"}}

\* the command as the kernel pads it, and the PID
Heads ==
    { [pad |-> <<>>, command |-> <<"s", "h">>, pid |-> Number(<<"0">>, 0)],
      [pad |-> <<" ", " ", " ">>, command |-> <<"<", "i", "d", "l", "e", ">">>, pid |-> Number(<<"0">>, 0)],
      [pad |-> <<>>, command |-> <<"a", "-", "b">>, pid |-> Number(<<"4", "2">>, 42)],
      [pad |-> <<" ", " ">>, command |-> <<"-", "x", "-", "-", "y">>, pid |-> Number(<<"7">>, 7)],
      [pad |-> <<>>, command |-> <<"s", "h">>, pid |-> Malformed(<<"f", "o", "o">>)] }

BaseHead == [pad |-> <<" ", " ", " ">>, command |-> <<"<", "i", "d", "l", "e", ">">>, pid |-> Number(<<"0">>, 0)]

FixedLines ==
    {[head |-> h, tags |-> [BaseTags EXCEPT !.family = f, !.protocol = p, !.v6 = x]] :
        h \in Heads, f \in Families, p \in Protocols, x \in BOOLEAN}
    \cup {[head |-> h, tags |-> [BaseTags EXCEPT !.family = f, !.protocol = p,
                                                 ![d.tag] = d.value]] :
            h \in {BaseHead}, f \in Families, p \in Protocols, d \in Defects}
    \cup {[head |-> BaseHead, tags |-> [BaseTags EXCEPT !.oldstate = o, !.newstate = n]] :
            o \in KernelStates \cup NoStates, n \in KernelStates \cup NoStates}
    \cup {[head |-> BaseHead, tags |-> [BaseTags EXCEPT !.sport = s, !.dport = d]] :
            s, d \in {Number(<<"0">>, 0), Number(<<"6", "5", "5", "3", "5">>, 65535), Malformed(<<"6", "5", "5", "3", "6">>),
                      Malformed(<<"-", "1">>), Malformed(<<"9", "9", "9", "9", "9">>)}}

\* "k=v k=v ..." for the pairs <<k, v>> whose value is not Absent
RECURSIVE TagRun(_)
TagRun(pairs) ==
    IF pairs = <<>> THEN <<>>
    ELSE LET rest == TagRun(Tail(pairs))
             p == Head(pairs)
         IN  IF p[2] = Absent THEN rest
             ELSE p[1] \o equalsBytes \o p[2].text
                  \o (IF rest = <<>> THEN <<>> ELSE spaceBytes \o rest)

TagBytes(tags) ==
    TagRun(<< <<<<"f", "a", "m", "i", "l", "y">>, tags.family>>, <<<<"p", "r", "o", "t", "o", "c", "o", "l">>, tags.protocol>>,
              <<<<"s", "p", "o", "r", "t">>, tags.sport>>, <<<<"d", "p", "o", "r", "t">>, tags.dport>>,
              <<<<"s", "a", "d", "d", "r">>, tags.saddr>>, <<<<"d", "a", "d", "d", "r">>, tags.daddr>>,
              <<<<"s", "a", "d", "d", "r", "v", "6">>, IF tags.v6 THEN Text(<<":", ":", "f", "f", "f", "f", ":", "1", "0", ".", "0", ".", "0", ".", "1">>) ELSE Absent>>,
              <<<<"d", "a", "d", "d", "r", "v", "6">>, IF tags.v6 THEN Text(<<":", ":", "f", "f", "f", "f", ":", "1", "0", ".", "0", ".", "0", ".", "2">>) ELSE Absent>>,
              <<<<"o", "l", "d", "s", "t", "a", "t", "e">>, tags.oldstate>>, <<<<"n", "e", "w", "s", "t", "a", "t", "e">>, tags.newstate>> >>)

\* <cmd>-<pid>   [cpu] flags ts: <tracepoint>: tags
LineBytes(line) ==
    line.head.pad \o line.head.command \o <<"-">> \o line.head.pid.text
    \o <<" ", " ", " ", "[", "0", "0", "0", "]", " ", ".", ".", "s", ".", " ", "9", ".", "5", ":", " ", "i", "n", "e", "t", "_", "s", "o", "c", "k", "_", "s", "e", "t", "_", "s", "t", "a", "t", "e", ":", " ">> \o TagBytes(line.tags)

\* lines that are not of the fixed format
OddLines ==
    { <<>>, <<" ", " ", " ">>, <<"s", "h", "-", "0", " ", "[", "0", "0", "0", "]", " ", "9", ".", "5", " ", "t", "p", " ", "s", "p", "o", "r", "t", "=", "8", "0">>, <<"s", "h", "0", " ", "[", "0", "0", "0", "]", " ", "9", ".", "5", ":", " ", "t", "p", ":", " ", "s", "p", "o", "r", "t", "=", "8", "0">>,
      <<"s", "h", "0", " ", "[", "0", "0", "0", "]", " ", "9", ".", "5", ":", " ", "a", "-", "b", ":", " ", "s", "p", "o", "r", "t", "=", "8", "0">>, <<"-", "0", " ", "[", "0", "0", "0", "]", " ", "9", ".", "5", ":", " ", "t", "p", ":", " ", "s", "p", "o", "r", "t", "=", "8", "0">>,
      <<" ", " ", "-", "0", " ", "[", "0", "0", "0", "]", " ", "9", ".", "5", ":", " ", "t", "p", ":", " ", "s", "p", "o", "r", "t", "=", "8", "0">>, <<":", " ", "t", "p", ":", " ", "s", "p", "o", "r", "t", "=", "8", "0">>, <<"s", "h", "-", "0", ":", " ">>,
      <<"s", "h", "-", "0", " ", "[", "0", "0", "0", "]", " ", "9", ".", "5", ":", " ", "t", "p">>, <<"s", "h", "-", "0", " ", "[", "0", "0", "0", "]", " ", "9", ".", "5", ":", " ", "t", "p", ":", " ">>, <<"s", "h", "-", "0", " ", "[", "0", "0", "0", "]", " ", "9", ".", "5", ":", " ", "t", "p", ":", " ", "s", "p", "o", "r", "t">>,
      <<"s", "h", "-", "0", " ", "[", "0", "0", "0", "]", " ", "9", ".", "5", ":", " ", "t", "p", ":", " ", "s", "p", "o", "r", "t", "=">>, <<"s", "h", "-", "0", " ", "[", "0", "0", "0", "]", " ", "9", ".", "5", ":", " ", "t", "p", ":", " ", "s", "p", "o", "r", "t", "=", " ", "d", "p", "o", "r", "t", "=", "8", "0">>,
      <<"a", "-", "b", "-", "7", " ", "[", "0", "0", "0", "]", " ", "d", "-", "s", ".", " ", "9", ".", "5", ":", " ", "t", "p", ":", " ", "s", "p", "o", "r", "t", "=", "8", "0">>, <<"s", "h", "-", "0">>, <<"-">>, <<"s", "h", "-", "0", " ", ":">>, <<"s", "h", " ", "0", ":", " ", "x", ":", " ", "y", "=", "z">>,
      <<"s", "h", "-", "0", " ", "[", "0", "0", "0", "]", " ", "9", ".", "5", ":", " ", "t", "p", ":", " ", "f", "a", "m", "i", "l", "y", "=", "A", "F", "_", "U", "N", "I", "X">>, <<"s", "h", "-", "0", " ", "[", "0", "0", "0", "]", " ", "9", ".", "5", ":", " ", "t", "p", ":", " ", "=", "x", " ", "s", "p", "o", "r", "t", "=", "8", "0">>,
      <<"s", "h", "-", "0", " ", "[", "0", "0", "0", "]", " ", "9", ".", "5", ":", " ", "t", "p", ":", " ", "s", "p", "o", "r", "t", "=", "8", "0", " ">> }

NoLine == [head |-> BaseHead, tags |-> BaseTags]

\* cursors of the field parser's tests, and runs of tags with a defect
TagCursors ==
    { <<"f", "o", "o", "=", "h", "e", "l", "l", "o", " ", "b", "a", "r", "=", "w", "o", "r", "l", "d", " ", "b", "a", "z", "=", "1", "2", "3">>, <<"f", "o", "o", " ", "b", "a", "r", " ", "b", "a", "z">>, <<"f", "o", "o", " ", "b", "a", "r">>, <<"f", "o", "o">>, <<"f", "o", "o", "=">>, <<"f", "o", "o", "=", " ">>,
      <<"f", "o", "o", "=", " ", "b", "a", "r", "=", "b", "a", "z">>, <<"=", "b", "a", "r">>, <<"a", "=", "b">>, <<"a", "=", "b", " ">>, <<"a", "=", "b", " ", " ", "c", "=", "d">>, <<"a", "=", "b", " ", "c">>, <<"a", "=", "b", " ", "=", "d">>,
      <<"a", "=", "1", " ", "a", "=", "2">>, <<"k", ":", " ", "v", ":", " ", "w">>, <<":", " ", "v">> }

\* lines with family=AF_UNIX whose command, PID or run of tags is malformed
ForeignOddLines ==
    { <<"s", "h", "0", " ", "[", "0", "0", "0", "]", " ", "9", ".", "5", ":", " ", "t", "p", ":", " ", "f", "a", "m", "i", "l", "y", "=", "A", "F", "_", "U", "N", "I", "X">>, <<"s", "h", "-", "0", " ", "[", "0", "0", "0", "]", " ", "9", ".", "5", " ", "t", "p", " ", "f", "a", "m", "i", "l", "y", "=", "A", "F", "_", "U", "N", "I", "X">>,
      <<"s", "h", "-", "x", " ", "[", "0", "0", "0", "]", " ", "9", ".", "5", ":", " ", "t", "p", ":", " ", "f", "a", "m", "i", "l", "y", "=", "A", "F", "_", "U", "N", "I", "X">>, <<"s", "h", "-", "0", " ", "[", "0", "0", "0", "]", " ", "9", ".", "5", ":", " ", "t", "p", ":", " ", "f", "a", "m", "i", "l", "y", "=", "A", "F", "_", "U", "N", "I", "X", " ", "s", "p", "o", "r", "t">>,
      <<"s", "h", "-", "0", " ", "[", "0", "0", "0", "]", " ", "9", ".", "5", ":", " ", "t", "p", ":", " ", "f", "a", "m", "i", "l", "y", "=", "A", "F", "_", "U", "N", "I", "X", " ", "=", "8", "0">>, <<"s", "h", "-", "0", " ", "[", "0", "0", "0", "]", " ", "9", ".", "5", ":", " ", "f", "a", "m", "i", "l", "y", "=", "A", "F", "_", "U", "N", "I", "X">> }

\* the inputs: the bytes, and for a line of the fixed format its parts
Inputs ==
    {[fixed |-> TRUE, line |-> l, str |-> LineBytes(l)] : l \in FixedLines}
    \cup {[fixed |-> FALSE, line |-> NoLine, str |-> s] : s \in OddLines \cup TagCursors \cup ForeignOddLines}

\* a nil *event.Event
NilEvent == <<>>

NoParse == [pc |-> "idle", in |-> [fixed |-> FALSE, line |-> NoLine, str |-> <<>>],
            op |-> "none", command |-> <<>>, str |-> <<>>, event |-> NilEvent,
            state |-> <<>>, sep |-> <<>>, more |-> FALSE, field |-> <<>>,
            fields |-> <<>>, err |-> Nil]

InitParseInput == parsed \in {[NoParse EXCEPT !.pc = "input", !.in = i] : i \in Inputs}

\* parseCommand of part_001 applied to the line
ParseCommandCall ==
    /\ parsed.pc = "input"
    /\ LET r == parseCommand(parsed.in.str)
       IN  parsed' = [parsed EXCEPT !.pc = "done", !.op = "parseCommand",
                                    !.command = r.command, !.str = r.str, !.err = r.err]
    /\ UNCHANGED <<evars, tivars, nvars, ovars>>

\* parseCommand of main.go applied to the line
MainParseCommandCall ==
    /\ parsed.pc = "input"
    /\ LET r == main_parseCommand(parsed.in.str)
       IN  parsed' = [parsed EXCEPT !.pc = "done", !.op = "main_parseCommand",
                                    !.command = r.command, !.str = r.str, !.err = r.err]
    /\ UNCHANGED <<evars, tivars, nvars, ovars>>

(***************************************************************************)
(* Claims about command extraction, checked under SpecParse.               *)
(***************************************************************************)
ParseDone(ops) == parsed.pc = "done" /\ parsed.op \in ops

\* the index of the last dash before index c, or -1
LastDashBefore(str, c) ==
    LET dashes == {i \in 0..(c - 1) : str[i + 1] = "-"}
    IN  IF dashes = {} THEN -1 ELSE CHOOSE i \in dashes : \A j \in dashes : j <= i

\* s without its leading spaces
TrimLeftSpaces(s) ==
    LET others == {i \in 1..Len(s) : s[i] # " "}
    IN  IF others = {} THEN <<>>
        ELSE SubSeq(s, CHOOSE i \in others : \A j \in others : i <= j, Len(s))

\* C19: on a line with a ": " and a dash before the first one, with a byte that
\* is not a space before that last dash, parseCommand returns no error and, as
\* the command, the bytes before the last dash that precedes the first ": ",
\* leading spaces removed; the cursor is left at the byte after that dash, so
\* that on a line of the fixed format the command is the line's command and
\* the cursor starts with the PID and the space that ends it.
C19_CommandBeforeLastDash ==
    ParseDone({"parseCommand", "main_parseCommand"}) =>
        LET str == parsed.in.str
            c == bytesIndex(str, colonSpaceBytes)
            d == LastDashBefore(str, c)
            cmd == TrimLeftSpaces(SubSeq(str, 1, d))
            pid == parsed.in.line.head.pid.text
        IN  (c # -1 /\ d # -1 /\ cmd # <<>>) =>
                /\ parsed.err = Nil
                /\ parsed.command = cmd
                /\ parsed.str = SubSeq(str, d + 2, Len(str))
                /\ parsed.in.fixed =>
                      /\ parsed.command = parsed.in.line.head.command
                      /\ SubSeq(parsed.str, 1, Len(pid) + 1) = pid \o spaceBytes

\* C19 witness: parseCommand of part_001 returned a command that has dashes in
\* it, from a line that pads it with spaces.
C19_Witness ==
    /\ ParseDone({"parseCommand"})
    /\ parsed.in.fixed
    /\ parsed.in.line.head.pad # <<>>
    /\ parsed.command = <<"-", "x", "-", "-", "y">>
    /\ parsed.err = Nil

\* C20: on a line with no ": ", or with no dash before the first ": ",
\* parseCommand returns an error that has io.ErrUnexpectedEOF in its chain, and
\* toEvent returns no event and such an error.
C20_NoSeparatorIsUnexpectedEOF ==
    ParseDone({"parseCommand", "main_parseCommand", "traceFSEventParser_toEvent",
               "main_toEvent"}) =>
        LET str == parsed.in.str
            c == bytesIndex(str, colonSpaceBytes)
        IN  (c = -1 \/ LastDashBefore(str, c) = -1) =>
                /\ parsed.event = NilEvent
                /\ parsed.err # Nil
                /\ errorsIs(parsed.err, ioErrUnexpectedEOF)

(***************************************************************************)
(* The library conversions the parser calls.                               *)
(***************************************************************************)
DigitValue ==
    [c \in {"0", "1", "2", "3", "4", "5", "6", "7", "8", "9"} |->
        CASE c = "0" -> 0 [] c = "1" -> 1 [] c = "2" -> 2 [] c = "3" -> 3 [] c = "4" -> 4
          [] c = "5" -> 5 [] c = "6" -> 6 [] c = "7" -> 7 [] c = "8" -> 8 [] c = "9" -> 9]

IsDigits(s) == s # <<>> /\ \A i \in DOMAIN s : s[i] \in DOMAIN DigitValue

\* the number a run of decimal digits stands for
RECURSIVE DecimalValue(_)
DecimalValue(s) ==
    IF s = <<>> THEN 0
    ELSE 10 * DecimalValue(SubSeq(s, 1, Len(s) - 1)) + DigitValue[s[Len(s)]]

strconvErrSyntax == "strconv.ErrSyntax"
strconvErrRange == "strconv.ErrRange"

\* strconv.ParseUint without the check of the range
strconvParseUint_NoRangeCheck(s, bitSize) ==
    IF ~IsDigits(s) THEN [n |-> 0, err |-> <<"strconv.ParseUint", strconvErrSyntax>>]
    ELSE [n |-> DecimalValue(s), err |-> Nil]

\* strconv.ParseUint(s, 10, bitSize): digits only, and the value must fit
strconvParseUint(s, bitSize) ==
    IF ~IsDigits(s) THEN [n |-> 0, err |-> <<"strconv.ParseUint", strconvErrSyntax>>]
    ELSE IF Len(s) > 6 \/ DecimalValue(s) >= 2 ^ bitSize
      THEN [n |-> 2 ^ bitSize - 1, err |-> <<"strconv.ParseUint", strconvErrRange>>]
    ELSE [n |-> DecimalValue(s), err |-> Nil]

\* strconv.ParseInt(s, 10, 64): an optional sign, then digits (the PIDs of the
\* model are far from the 64-bit range)
strconvParseInt(s) ==
    LET signed == s # <<>> /\ Head(s) \in {"+", "-"}
        digits == IF signed THEN Tail(s) ELSE s
    IN  IF ~IsDigits(digits) THEN [n |-> 0, err |-> <<"strconv.ParseInt", strconvErrSyntax>>]
        ELSE [n |-> IF signed /\ Head(s) = "-" THEN 0 - DecimalValue(digits)
                    ELSE DecimalValue(digits),
              err |-> Nil]

\* the conversion uint16(n)
uint16(n) == n % 65536

\* s cut at every occurrence of the byte c
RECURSIVE SplitAt(_, _)
SplitAt(s, c) ==
    LET idx == bytesIndex(s, <<c>>)
    IN  IF idx = -1 THEN <<s>>
        ELSE <<Slice(s, 0, idx)>> \o SplitAt(Slice(s, idx + 1, Len(s)), c)

\* the nil net.IP
NilIP == <<>>

\* net.ParseIP on IPv4 text: four decimal numbers of at most three digits, none
\* above 255, with dots between; anything else the model hands it is no address
netParseIP(s) ==
    LET parts == SplitAt(s, ".")
    IN  IF Len(parts) = 4
           /\ \A i \in 1..4 : IsDigits(parts[i]) /\ Len(parts[i]) <= 3
                              /\ DecimalValue(parts[i]) <= 255
          THEN [i \in 1..4 |-> DecimalValue(parts[i])]
          ELSE NilIP

\* strings.TrimPrefix(s, prefix)
stringsTrimPrefix(s, prefix) ==
    IF Len(s) >= Len(prefix) /\ SubSeq(s, 1, Len(prefix)) = prefix
      THEN SubSeq(s, Len(prefix) + 1, Len(s))
      ELSE s

\* strings.ReplaceAll(s, old, new) for one-byte old and new
stringsReplaceAll(s, old, new) == [i \in DOMAIN s |-> IF s[i] = old THEN new ELSE s[i]]

\* the closed enumeration of canonical TCP state names
TCPStates ==
    { <<"C", "L", "O", "S", "E", "D">>, <<"L", "I", "S", "T", "E", "N">>, <<"S", "Y", "N", "-", "S", "E", "N", "T">>, <<"S", "Y", "N", "-", "R", "E", "C", "E", "I", "V", "E", "D">>, <<"E", "S", "T", "A", "B", "L", "I", "S", "H", "E", "D">>, <<"F", "I", "N", "-", "W", "A", "I", "T", "-", "1">>,
      <<"F", "I", "N", "-", "W", "A", "I", "T", "-", "2">>, <<"C", "L", "O", "S", "E", "-", "W", "A", "I", "T">>, <<"C", "L", "O", "S", "I", "N", "G">>, <<"L", "A", "S", "T", "-", "A", "C", "K">>, <<"T", "I", "M", "E", "-", "W", "A", "I", "T">> }

errInvalidState == "tcpstate: invalid state"

\* tcpstate.FromString: the state of that name, or an error
tcpstateFromString(s) ==
    IF s \in TCPStates THEN [state |-> s, err |-> Nil]
    ELSE [state |-> <<>>, err |-> <<errInvalidState>>]

\* part_001:165-181 without the exception for TCP_CLOSE
canonicaliseState_NoCloseException(state) ==
    tcpstateFromString(
        CASE state = <<"T", "C", "P", "_", "F", "I", "N", "_", "W", "A", "I", "T", "1">> -> <<"F", "I", "N", "-", "W", "A", "I", "T", "-", "1">>
          [] state = <<"T", "C", "P", "_", "F", "I", "N", "_", "W", "A", "I", "T", "2">> -> <<"F", "I", "N", "-", "W", "A", "I", "T", "-", "2">>
          [] state = <<"T", "C", "P", "_", "S", "Y", "N", "_", "R", "E", "C", "V">> -> <<"S", "Y", "N", "-", "R", "E", "C", "E", "I", "V", "E", "D">>
          [] OTHER -> stringsReplaceAll(stringsTrimPrefix(state, <<"T", "C", "P", "_">>), "_", "-"))

\* part_001:165-181
canonicaliseState(state) ==
    tcpstateFromString(
        CASE state = <<"T", "C", "P", "_", "C", "L", "O", "S", "E">> -> <<"C", "L", "O", "S", "E", "D">>
          [] state = <<"T", "C", "P", "_", "F", "I", "N", "_", "W", "A", "I", "T", "1">> -> <<"F", "I", "N", "-", "W", "A", "I", "T", "-", "1">>
          [] state = <<"T", "C", "P", "_", "F", "I", "N", "_", "W", "A", "I", "T", "2">> -> <<"F", "I", "N", "-", "W", "A", "I", "T", "-", "2">>
          [] state = <<"T", "C", "P", "_", "S", "Y", "N", "_", "R", "E", "C", "V">> -> <<"S", "Y", "N", "-", "R", "E", "C", "E", "I", "V", "E", "D">>
          [] OTHER -> stringsReplaceAll(stringsTrimPrefix(state, <<"T", "C", "P", "_">>), "_", "-"))

(***************************************************************************)
(* The tokenizer of main.go, and the field parser of the newer parser.     *)
(***************************************************************************)
\* main.go:422-440 with the cursor passed by value: the caller's *str is not
\* advanced past the field
main_nextField_CursorKept(str, sep, expectMoreFields) ==
    LET idx == bytesIndex(str, sep)
    IN  IF idx = -1
          THEN IF expectMoreFields
                 THEN [field |-> <<>>, str |-> str, err |-> <<ioErrUnexpectedEOF>>]
                 ELSE [field |-> str, str |-> str, err |-> ioEOF]
          ELSE [field |-> Slice(str, 0, idx), str |-> str, err |-> Nil]

\* main.go:422-440.  The result is the field, the cursor *str and the error.
main_nextField(str, sep, expectMoreFields) ==
    LET idx == bytesIndex(str, sep)
    IN  IF idx = -1
          THEN IF expectMoreFields
                 THEN [field |-> <<>>, str |-> str, err |-> <<ioErrUnexpectedEOF>>]
                 ELSE [field |-> str, str |-> str, err |-> ioEOF]
          ELSE [field |-> Slice(str, 0, idx), str |-> Slice(str, idx + 1, Len(str)),
                err |-> Nil]

\* main.go:442-449: the index is not checked, so without the separator the
\* slice starts at len(sep) - 1, which panics when the cursor is shorter
main_skipField(str, sep) ==
    LET lo == bytesIndex(str, sep) + Len(sep)
    IN  IF lo > Len(str)
          THEN [str |-> str, err |-> main_panicToErr(errSliceBounds)]
          ELSE [str |-> Slice(str, lo, Len(str)), err |-> Nil]

\* the empty map, and fields[tag] = value
NoFields == <<>>

MapPut(fields, tag, value) ==
    [k \in DOMAIN fields \cup {tag} |-> IF k = tag THEN value ELSE fields[k]]

\* main.go:451-472: the loop, from the cursor and the map built so far
RECURSIVE main_getTaggedFieldsFrom(_, _)
main_getTaggedFieldsFrom(str, fields) ==
    LET nextTag == main_nextField(str, equalsBytes, TRUE)
    IN  IF nextTag.err # Nil
          THEN [fields |-> NoFields, str |-> nextTag.str,
                err |-> Wrap("parsing next tag", nextTag.err)]
        ELSE
          LET nextValue == main_nextField(nextTag.str, spaceBytes, FALSE)
          IN  IF nextValue.err # Nil /\ nextValue.err # ioEOF
                THEN [fields |-> NoFields, str |-> nextValue.str,
                      err |-> Wrap("parsing next tagged value", nextValue.err)]
              ELSE IF nextValue.err = ioEOF
                THEN [fields |-> MapPut(fields, nextTag.field, nextValue.field),
                      str |-> nextValue.str, err |-> Nil]
              ELSE main_getTaggedFieldsFrom(nextValue.str,
                                            MapPut(fields, nextTag.field, nextValue.field))

\* main.go:451-472
main_getTaggedFields(str) == main_getTaggedFieldsFrom(str, NoFields)

errEmptyField == "EmptyField"

\* nextField of the slicingFieldParser
slicingFieldParser_nextField(str, sep, expectMoreFields) ==
    LET idx == bytesIndex(str, sep)
    IN  IF str = <<>>
          THEN [field |-> <<>>, str |-> str, err |-> <<ioErrUnexpectedEOF>>]
        ELSE IF idx = -1
          THEN IF expectMoreFields
                 THEN [field |-> <<>>, str |-> str, err |-> <<ioErrUnexpectedEOF>>]
                 ELSE [field |-> str, str |-> <<>>, err |-> ioEOF]
        ELSE IF idx = 0
          THEN [field |-> <<>>, str |-> Slice(str, idx + Len(sep), Len(str)),
                err |-> <<errEmptyField>>]
        ELSE [field |-> Slice(str, 0, idx), str |-> Slice(str, idx + Len(sep), Len(str)),
              err |-> Nil]

\* getTaggedFields of the slicingFieldParser: the loop
RECURSIVE slicingFieldParser_getTaggedFieldsFrom(_, _)
slicingFieldParser_getTaggedFieldsFrom(str, fields) ==
    LET nextTag == slicingFieldParser_nextField(str, equalsBytes, TRUE)
    IN  IF nextTag.err # Nil
          THEN [fields |-> NoFields, str |-> nextTag.str,
                err |-> Wrap("parsing next tag", nextTag.err)]
        ELSE
          LET nextValue == slicingFieldParser_nextField(nextTag.str, spaceBytes, FALSE)
          IN  IF nextValue.err # Nil /\ nextValue.err # ioEOF
                THEN [fields |-> NoFields, str |-> nextValue.str,
                      err |-> Wrap("parsing next tagged value", nextValue.err)]
              ELSE IF nextValue.err = ioEOF
                THEN [fields |-> MapPut(fields, nextTag.field, nextValue.field),
                      str |-> nextValue.str, err |-> Nil]
              ELSE slicingFieldParser_getTaggedFieldsFrom(
                       nextValue.str, MapPut(fields, nextTag.field, nextValue.field))

slicingFieldParser_getTaggedFields(str) ==
    slicingFieldParser_getTaggedFieldsFrom(str, NoFields)

(***************************************************************************)
(* toEvent.                                                                *)
(***************************************************************************)
\* part_001:24: the sentinel of the newer parser is a value of its own
traceFSEventParser_errIrrelevantEvent == NewError("irrelevant event")

\* the words of the two messages for an address that does not parse, which is
\* where the two files differ
couldNotParseAddress ==
    [part_001 |-> [saddr |-> "could not parse source address",
                   daddr |-> "could not parse destination address"],
     main |-> [saddr |-> "could not parse source IP address",
               daddr |-> "could not parse destination IP address"]]

Failed(err) == [event |-> NilEvent, err |-> err]

\* part_001:88-162 with the validation of the old state applied to the new state's tag
statesFromTags_OldFromNew(tags) ==
    IF <<"o", "l", "d", "s", "t", "a", "t", "e">> \notin DOMAIN tags
      THEN [old |-> <<>>, new |-> <<>>, err |-> NewError("old state not present in event")]
    ELSE IF <<"n", "e", "w", "s", "t", "a", "t", "e">> \notin DOMAIN tags
      THEN [old |-> <<>>, new |-> <<>>, err |-> NewError("new state not present in event")]
    ELSE
      LET n == canonicaliseState(tags[<<"n", "e", "w", "s", "t", "a", "t", "e">>])
      IN  IF n.err # Nil
            THEN [old |-> <<>>, new |-> <<>>, err |-> Wrap("canonicalising new state", n.err)]
            ELSE [old |-> n.state, new |-> n.state, err |-> Nil]

\* part_001:134-150 with the new state looked at before the old state
statesFromTags_NewStateFirst(tags) ==
    IF <<"n", "e", "w", "s", "t", "a", "t", "e">> \notin DOMAIN tags
      THEN [old |-> <<>>, new |-> <<>>, err |-> NewError("new state not present in event")]
    ELSE
      LET n == canonicaliseState(tags[<<"n", "e", "w", "s", "t", "a", "t", "e">>])
      IN  IF n.err # Nil
            THEN [old |-> <<>>, new |-> <<>>, err |-> Wrap("canonicalising new state", n.err)]
          ELSE IF <<"o", "l", "d", "s", "t", "a", "t", "e">> \notin DOMAIN tags
            THEN [old |-> <<>>, new |-> <<>>,
                  err |-> NewError("old state not present in event")]
          ELSE
            LET o == canonicaliseState(tags[<<"o", "l", "d", "s", "t", "a", "t", "e">>])
            IN  IF o.err # Nil
                  THEN [old |-> <<>>, new |-> <<>>,
                        err |-> Wrap("canonicalising old state", o.err)]
                  ELSE [old |-> o.state, new |-> n.state, err |-> Nil]

\* part_001:134-150 (main.go:372-388): the two state tags
statesFromTags(tags) ==
    IF <<"o", "l", "d", "s", "t", "a", "t", "e">> \notin DOMAIN tags
      THEN [old |-> <<>>, new |-> <<>>, err |-> NewError("old state not present in event")]
    ELSE
      LET o == canonicaliseState(tags[<<"o", "l", "d", "s", "t", "a", "t", "e">>])
      IN  IF o.err # Nil
            THEN [old |-> <<>>, new |-> <<>>, err |-> Wrap("canonicalising old state", o.err)]
          ELSE IF <<"n", "e", "w", "s", "t", "a", "t", "e">> \notin DOMAIN tags
            THEN [old |-> <<>>, new |-> <<>>,
                  err |-> NewError("new state not present in event")]
          ELSE
            LET n == canonicaliseState(tags[<<"n", "e", "w", "s", "t", "a", "t", "e">>])
            IN  IF n.err # Nil
                  THEN [old |-> <<>>, new |-> <<>>,
                        err |-> Wrap("canonicalising new state", n.err)]
                  ELSE [old |-> o.state, new |-> n.state, err |-> Nil]

\* part_001:74-86 with a line that has no family tag or no protocol tag rejected
irrelevantTags_AbsentRejected(tags) ==
    \/ <<"f", "a", "m", "i", "l", "y">> \notin DOMAIN tags
    \/ tags[<<"f", "a", "m", "i", "l", "y">>] # familyInet
    \/ <<"p", "r", "o", "t", "o", "c", "o", "l">> \notin DOMAIN tags
    \/ tags[<<"p", "r", "o", "t", "o", "c", "o", "l">>] # protocolTCP

\* part_001:74-86 (main.go:312-324): a family tag that is present and is not
\* AF_INET, or a protocol tag that is present and is not IP<<"p", "r", "o", "t", "o", "c", "o", "l">>_TCP
irrelevantTags(tags) ==
    \/ <<"f", "a", "m", "i", "l", "y">> \in DOMAIN tags /\ tags[<<"f", "a", "m", "i", "l", "y">>] # familyInet
    \/ <<"p", "r", "o", "t", "o", "c", "o", "l">> \in DOMAIN tags /\ tags[<<"p", "r", "o", "t", "o", "c", "o", "l">>] # protocolTCP

\* part_001:74-162 and main.go:312-401, which differ in the value of
\* errIrrelevantEvent and in the two messages of couldNotParseAddress: from the
\* command, the PID and the tag map to the event or the error
eventFromTags(command, pid, tags, irrelevant, messages) ==
    IF irrelevantTags(tags) THEN Failed(irrelevant)
    ELSE IF <<"s", "p", "o", "r", "t">> \notin DOMAIN tags
      THEN Failed(NewError("source port not present in event"))
    ELSE
    LET sourcePort == strconvParseUint(tags[<<"s", "p", "o", "r", "t">>], 16)
    IN  IF sourcePort.err # Nil
          THEN Failed(Wrap("converting source port to integer", sourcePort.err))
    ELSE IF <<"d", "p", "o", "r", "t">> \notin DOMAIN tags
      THEN Failed(NewError("destination port not present in event"))
    ELSE
    LET destPort == strconvParseUint(tags[<<"d", "p", "o", "r", "t">>], 16)
    IN  IF destPort.err # Nil
          THEN Failed(Wrap("converting destination port to integer", destPort.err))
    ELSE IF <<"s", "a", "d", "d", "r">> \notin DOMAIN tags
      THEN Failed(NewError("source address not present in event"))
    ELSE IF netParseIP(tags[<<"s", "a", "d", "d", "r">>]) = NilIP THEN Failed(NewError(messages.saddr))
    ELSE IF <<"d", "a", "d", "d", "r">> \notin DOMAIN tags
      THEN Failed(NewError("destination address not present in event"))
    ELSE IF netParseIP(tags[<<"d", "a", "d", "d", "r">>]) = NilIP THEN Failed(NewError(messages.daddr))
    ELSE
    LET states == statesFromTags(tags)
    IN  IF states.err # Nil THEN Failed(states.err)
        ELSE [event |-> << [CommandOnCPU |-> command, PIDOnCPU |-> pid,
                            SourceIP |-> netParseIP(tags[<<"s", "a", "d", "d", "r">>]),
                            DestIP |-> netParseIP(tags[<<"d", "a", "d", "d", "r">>]),
                            SourcePort |-> uint16(sourcePort.n),
                            DestPort |-> uint16(destPort.n),
                            OldState |-> states.old, NewState |-> states.new] >>,
              err |-> Nil]

\* part_001:43-163, with the field parser it is given
traceFSEventParser_toEvent(str) ==
    LET command == parseCommand(str)
    IN  IF command.err # Nil
          THEN Failed(Wrap("parsing command from event", command.err))
    ELSE
    LET pidStr == slicingFieldParser_nextField(command.str, spaceBytes, TRUE)
    IN  IF pidStr.err # Nil THEN Failed(Wrap("parsing PID from event", pidStr.err))
    ELSE
    LET pid == strconvParseInt(pidStr.field)
    IN  IF pid.err # Nil THEN Failed(Wrap("converting PID to integer", pid.err))
    ELSE
    LET metadata == slicingFieldParser_nextField(pidStr.str, colonSpaceBytes, TRUE)
    IN  IF metadata.err # Nil
          THEN Failed(Wrap("skipping metadata from event", metadata.err))
    ELSE
    LET tracepoint == slicingFieldParser_nextField(metadata.str, colonSpaceBytes, TRUE)
    IN  IF tracepoint.err # Nil
          THEN Failed(Wrap("skipping tracepoint from event", tracepoint.err))
    ELSE
    LET tags == slicingFieldParser_getTaggedFields(tracepoint.str)
    IN  IF tags.err # Nil THEN Failed(Wrap("parsing tagged fields", tags.err))
        ELSE eventFromTags(command.command, pid.n, tags.fields,
                           traceFSEventParser_errIrrelevantEvent,
                           couldNotParseAddress.part_001)

\* main.go:281-401, the toEvent of the older file on the bytes of a line
main_toEvent(str) ==
    LET command == main_parseCommand(str)
    IN  IF command.err # Nil
          THEN Failed(Wrap("parsing command from event", command.err))
    ELSE
    LET pidStr == main_nextField(command.str, spaceBytes, TRUE)
    IN  IF pidStr.err # Nil THEN Failed(Wrap("parsing PID from event", pidStr.err))
    ELSE
    LET pid == strconvParseInt(pidStr.field)
    IN  IF pid.err # Nil THEN Failed(Wrap("converting PID to integer", pid.err))
    ELSE
    LET metadata == main_skipField(pidStr.str, colonSpaceBytes)
    IN  IF metadata.err # Nil
          THEN Failed(Wrap("skipping metadata from event", metadata.err))
    ELSE
    LET tracepoint == main_skipField(metadata.str, colonSpaceBytes)
    IN  IF tracepoint.err # Nil
          THEN Failed(Wrap("skipping tracepoint from event", tracepoint.err))
    ELSE
    LET tags == main_getTaggedFields(tracepoint.str)
    IN  IF tags.err # Nil THEN Failed(Wrap("parsing tagged fields", tags.err))
        ELSE eventFromTags(command.command, pid.n, tags.fields, errIrrelevantEvent,
                           couldNotParseAddress.main)

ToEventCall ==
    /\ parsed.pc = "input"
    /\ LET r == traceFSEventParser_toEvent(parsed.in.str)
       IN  parsed' = [parsed EXCEPT !.pc = "done", !.op = "traceFSEventParser_toEvent",
                                    !.event = r.event, !.err = r.err]
    /\ UNCHANGED <<evars, tivars, nvars, ovars>>

MainToEventCall ==
    /\ parsed.pc = "input"
    /\ LET r == main_toEvent(parsed.in.str)
       IN  parsed' = [parsed EXCEPT !.pc = "done", !.op = "main_toEvent",
                                    !.event = r.event, !.err = r.err]
    /\ UNCHANGED <<evars, tivars, nvars, ovars>>

\* the separators toEvent and getTaggedFields pass to nextField
Separators == {spaceBytes, equalsBytes, colonSpaceBytes}

\* the cursor getTaggedFields is given: the tags of a line, or the bytes
TagCursor(in) == IF in.fixed THEN TagBytes(in.line.tags) ELSE in.str

\* nextField of the slicingFieldParser applied to the bytes as its cursor
NextFieldCall ==
    /\ parsed.pc = "input"
    /\ \E sep \in Separators, expectMoreFields \in BOOLEAN :
         LET r == slicingFieldParser_nextField(parsed.in.str, sep, expectMoreFields)
         IN  parsed' = [parsed EXCEPT !.pc = "done", !.op = "slicingFieldParser_nextField",
                                      !.sep = sep, !.more = expectMoreFields,
                                      !.field = r.field, !.str = r.str, !.err = r.err]
    /\ UNCHANGED <<evars, tivars, nvars, ovars>>

\* nextField of main.go applied to the bytes as its cursor
MainNextFieldCall ==
    /\ parsed.pc = "input"
    /\ \E sep \in Separators, expectMoreFields \in BOOLEAN :
         LET r == main_nextField(parsed.in.str, sep, expectMoreFields)
         IN  parsed' = [parsed EXCEPT !.pc = "done", !.op = "main_nextField",
                                      !.sep = sep, !.more = expectMoreFields,
                                      !.field = r.field, !.str = r.str, !.err = r.err]
    /\ UNCHANGED <<evars, tivars, nvars, ovars>>

\* getTaggedFields of the slicingFieldParser applied to the run of tags
GetTaggedFieldsCall ==
    /\ parsed.pc = "input"
    /\ LET r == slicingFieldParser_getTaggedFields(TagCursor(parsed.in))
       IN  parsed' = [parsed EXCEPT !.pc = "done",
                                    !.op = "slicingFieldParser_getTaggedFields",
                                    !.fields = r.fields, !.str = r.str, !.err = r.err]
    /\ UNCHANGED <<evars, tivars, nvars, ovars>>

\* getTaggedFields of main.go applied to the run of tags
MainGetTaggedFieldsCall ==
    /\ parsed.pc = "input"
    /\ LET r == main_getTaggedFields(TagCursor(parsed.in))
       IN  parsed' = [parsed EXCEPT !.pc = "done", !.op = "main_getTaggedFields",
                                    !.fields = r.fields, !.str = r.str, !.err = r.err]
    /\ UNCHANGED <<evars, tivars, nvars, ovars>>

\* canonicaliseState applied to the value of the line's oldstate tag
CanonicaliseStateCall ==
    /\ parsed.pc = "input"
    /\ parsed.in.fixed
    /\ parsed.in.line.tags.oldstate # Absent
    /\ LET r == canonicaliseState(parsed.in.line.tags.oldstate.text)
       IN  parsed' = [parsed EXCEPT !.pc = "done", !.op = "canonicaliseState",
                                    !.state = r.state, !.err = r.err]
    /\ UNCHANGED <<evars, tivars, nvars, ovars>>

(***************************************************************************)
(* The for loop of getTaggedFields of main.go, an iteration at a time.     *)
(***************************************************************************)
\* main.go:453-469: one iteration of the loop, from the cursor and the map
\* built so far.  returned says that the iteration left the function (459,
\* 463) or the loop (467-469).
main_getTaggedFieldsIteration(str, fields) ==
    LET nextTag == main_nextField(str, equalsBytes, TRUE)
    IN  IF nextTag.err # Nil
          THEN [returned |-> TRUE, fields |-> NoFields, str |-> nextTag.str,
                err |-> Wrap("parsing next tag", nextTag.err)]
        ELSE
          LET nextValue == main_nextField(nextTag.str, spaceBytes, FALSE)
          IN  IF nextValue.err # Nil /\ nextValue.err # ioEOF
                THEN [returned |-> TRUE, fields |-> NoFields, str |-> nextValue.str,
                      err |-> Wrap("parsing next tagged value", nextValue.err)]
              ELSE [returned |-> (nextValue.err = ioEOF),
                    fields |-> MapPut(fields, nextTag.field, nextValue.field),
                    str |-> nextValue.str, err |-> Nil]

\* the bytes a cursor is made of: a letter and the two separators
CursorBytes == {"a", "=", " "}

\* every cursor of at most MaxCursorLen bytes
Cursors == UNION {[1..n -> CursorBytes] : n \in 0..MaxCursorLen}

\* main.go:451-452: getTaggedFields entered with a cursor
InitLoopInput ==
    loop \in {[pc |-> "loop", in |-> c, str |-> c, fields |-> NoFields, iter |-> 0,
               err |-> Nil] : c \in Cursors}

\* more iterations than the cursor has bytes are not followed
LoopCanRun == loop.pc = "loop" /\ loop.iter <= Len(loop.in)

\* main.go:453-469: an iteration after which the loop goes on
GetTaggedFieldsIterate ==
    /\ UNCHANGED <<evars, tivars, nvars, pvars, pair, mounts>>
    /\ LoopCanRun
    /\ LET r == main_getTaggedFieldsIteration(loop.str, loop.fields)
       IN  /\ ~r.returned
           /\ loop' = [loop EXCEPT !.str = r.str, !.fields = r.fields,
                                   !.iter = @ + 1]

\* main.go:453-471: the iteration that returns an error or breaks out of the
\* loop, and the return of the map
GetTaggedFieldsReturn ==
    /\ UNCHANGED <<evars, tivars, nvars, pvars, pair, mounts>>
    /\ LoopCanRun
    /\ LET r == main_getTaggedFieldsIteration(loop.str, loop.fields)
       IN  /\ r.returned
           /\ loop' = [loop EXCEPT !.pc = "done", !.str = r.str, !.fields = r.fields,
                                   !.iter = @ + 1, !.err = r.err]


(***************************************************************************)
(* The parser of /proc/mounts.  The reader is the lines the bufio.Scanner  *)
(* hands out, followed by the end of the input or by the error of a Read.  *)
(* The field parser is injected: the slicingFieldParser, the nextField of  *)
(* main.go, or the mock of the tests that returns a fixed error.           *)
(***************************************************************************)
tracefsBytes == <<"t", "r", "a", "c", "e", "f", "s">>
procBytes == <<"p", "r", "o", "c">>

\* mount_parser_test.go:26-28
mockFieldParser_nextField(mfp, str, sep, expectMoreFields) ==
    [field |-> <<>>, str |-> str, err |-> mfp.nextFieldErrorToReturn]

\* the call mp.fieldParser.nextField(...) on the injected fieldParser
fieldParser_nextField(fp, str, sep, expectMoreFields) ==
    CASE fp.kind = "slicingFieldParser" -> slicingFieldParser_nextField(str, sep, expectMoreFields)
      [] fp.kind = "main" -> main_nextField(str, sep, expectMoreFields)
      [] fp.kind = "mockFieldParser" -> mockFieldParser_nextField(fp, str, sep, expectMoreFields)

\* part_004:31-56: the loop, from the i-th line the scanner hands out.  The
\* messages are the format strings; %s is fsType.
RECURSIVE procMountsMountsParser_scanFrom(_, _, _, _)
procMountsMountsParser_scanFrom(mp, reader, fsType, i) ==
    IF i > Len(reader.lines)
      THEN IF reader.err # Nil
             THEN [mountpoint |-> <<>>,
                   err |-> Wrap("scanning mounts for %s mountpoint", reader.err)]
             ELSE [mountpoint |-> <<>>, err |-> NewError("%s not mounted")]
      ELSE
        LET device == fieldParser_nextField(mp.fieldParser, reader.lines[i], spaceBytes, TRUE)
        IN  IF device.err # Nil
              THEN [mountpoint |-> <<>>, err |-> Wrap("getting device from mount", device.err)]
            ELSE IF device.field = fsType
              THEN LET mountpoint == fieldParser_nextField(mp.fieldParser, device.str,
                                                           spaceBytes, TRUE)
                   IN  IF mountpoint.err # Nil
                         THEN [mountpoint |-> <<>>,
                               err |-> Wrap("getting mountpoint from mount", mountpoint.err)]
                         ELSE [mountpoint |-> mountpoint.field, err |-> Nil]
            ELSE procMountsMountsParser_scanFrom(mp, reader, fsType, i + 1)

\* part_004:29-57 with the loop left after its first iteration: only the
\* first line of the input is looked at
procMountsMountsParser_getFirstMountpoint_FirstLineOnly(mp, reader, fsType) ==
    procMountsMountsParser_scanFrom(mp,
        [reader EXCEPT !.lines = IF @ = <<>> THEN <<>> ELSE <<@[1]>>], fsType, 1)

\* part_004:29-57
procMountsMountsParser_getFirstMountpoint(mp, reader, fsType) ==
    procMountsMountsParser_scanFrom(mp, reader, fsType, 1)

\* main.go:182-209: the same loop with the nextField of main.go and the type
\* tracefs written in
main_getTraceFSMountpoint(reader) ==
    LET r == procMountsMountsParser_scanFrom([fieldParser |-> [kind |-> "main"]], reader,
                                             tracefsBytes, 1)
    IN  IF r.err # Nil /\ r.err[1] = "scanning mounts for %s mountpoint"
          THEN [r EXCEPT !.err = Wrap("scanning mounts for tracefs mountpoint", Tail(r.err))]
        ELSE IF r.err = NewError("%s not mounted")
          THEN [r EXCEPT !.err = NewError("tracefs not mounted")]
        ELSE r

\* lines of /proc/mounts, well formed and not
MountLines ==
    { <<"t", "r", "a", "c", "e", "f", "s", " ", "/", "t", " ", "t", "r", "a", "c", "e", "f", "s", " ", "r", "w", " ", "0", " ", "0">>, <<"t", "r", "a", "c", "e", "f", "s", " ", "/", "u", " ", "x">>, <<"p", "r", "o", "c", " ", "/", "p", "r", "o", "c", " ", "p", "r", "o", "c", " ", "r", "w", " ", "0", " ", "0">>,
      <<"f", "o", "o", "f", "s", " ", "/", "t", " ", "t", "r", "a", "c", "e", "f", "s", " ", "r", "w">>, <<"t", "r", "a", "c", "e", "f", "s", " ">>, <<"t", "r", "a", "c", "e", "f", "s">>, <<"t", "r", "a", "c", "e", "f", "s", " ", "/", "t">>, <<" ">>, <<>>,
      <<" ", "t", "r", "a", "c", "e", "f", "s", " ", "/", "t", " ", "x">>, <<"t", "r", "a", "c", "e", "f", "s", " ", " ", "/", "t", " ", "x">> }

MountInputs == UNION {[1..n -> MountLines] : n \in 0..MaxMountLines}

mockReaderError == <<"mock reader error">>
mockFieldParserError == <<"mock field parser error">>

\* mount_parser_test.go:61, :91, :107
FieldParsers ==
    { [kind |-> "slicingFieldParser", nextFieldErrorToReturn |-> Nil],
      [kind |-> "mockFieldParser", nextFieldErrorToReturn |-> mockFieldParserError],
      [kind |-> "mockFieldParser", nextFieldErrorToReturn |-> Nil] }

FsTypes == {tracefsBytes, procBytes}

NoMounts == [pc |-> "idle", op |-> "", fieldParser |-> [kind |-> ""],
             reader |-> [lines |-> <<>>, err |-> Nil], fsType |-> <<>>,
             mountpoint |-> <<>>, err |-> Nil]

InitMountsInput ==
    mounts \in {[NoMounts EXCEPT !.pc = "input", !.fieldParser = fp,
                                 !.reader = [lines |-> ls, err |-> e], !.fsType = t] :
                   fp \in FieldParsers, ls \in MountInputs,
                   e \in {Nil, mockReaderError}, t \in FsTypes}

\* part_004:29-57 called on the input
GetFirstMountpointCall ==
    /\ UNCHANGED <<evars, tivars, nvars, pvars, pair, loop>>
    /\ mounts.pc = "input"
    /\ LET r == procMountsMountsParser_getFirstMountpoint(
                    [fieldParser |-> mounts.fieldParser], mounts.reader, mounts.fsType)
       IN  mounts' = [mounts EXCEPT !.pc = "done",
                                    !.op = "procMountsMountsParser_getFirstMountpoint",
                                    !.mountpoint = r.mountpoint, !.err = r.err]

\* main.go:182-209 called on the input; its field parser and its filesystem
\* type are not injected
GetTraceFSMountpointCall ==
    /\ UNCHANGED <<evars, tivars, nvars, pvars, pair, loop>>
    /\ mounts.pc = "input"
    /\ mounts.fieldParser.kind = "slicingFieldParser"
    /\ mounts.fsType = tracefsBytes
    /\ LET r == main_getTraceFSMountpoint(mounts.reader)
       IN  mounts' = [mounts EXCEPT !.pc = "done", !.op = "main_getTraceFSMountpoint",
                                    !.fieldParser = [kind |-> "main",
                                                     nextFieldErrorToReturn |-> Nil],
                                    !.mountpoint = r.mountpoint, !.err = r.err]

InitP == InitEventer /\ InitTI /\ InitNew /\ InitDeduce /\ InitParseInput /\ InitPair /\ InitLoop /\ InitMounts

NextParse ==
    \/ ParseCommandCall
    \/ MainParseCommandCall
    \/ ToEventCall
    \/ MainToEventCall
    \/ CanonicaliseStateCall
    \/ NextFieldCall
    \/ MainNextFieldCall
    \/ GetTaggedFieldsCall
    \/ MainGetTaggedFieldsCall

SpecParse == InitP /\ [][NextParse]_vars

InitF == InitEventer /\ InitTI /\ InitNew /\ InitDeduce /\ InitParse /\ InitPair /\ InitLoopInput /\ InitMounts

NextFields ==
    \/ GetTaggedFieldsIterate
    \/ GetTaggedFieldsReturn

SpecFields == InitF /\ [][NextFields]_vars

\* the goroutine in getTaggedFields is scheduled while it can take a step
SpecFieldsLive == SpecFields /\ WF_vars(NextFields)

InitM == InitEventer /\ InitTI /\ InitNew /\ InitDeduce /\ InitParse /\ InitPair /\ InitLoop /\ InitMountsInput

NextMounts ==
    \/ GetFirstMountpointCall
    \/ GetTraceFSMountpointCall

SpecMounts == InitM /\ [][NextMounts]_vars



(***************************************************************************)
(* Claims about toEvent, checked under SpecParse.                          *)
(***************************************************************************)
ToEventOps == {"traceFSEventParser_toEvent", "main_toEvent"}

\* a line of the fixed format with family=AF_INET, protocol=IPPROTO_TCP, a
\* numeric PID and the six mandatory tags present and well-formed
ValidLine(in) ==
    /\ in.fixed
    /\ in.line.head.pid.ok
    /\ in.line.tags.family = Text(familyInet)
    /\ in.line.tags.protocol = Text(protocolTCP)
    /\ \A t \in MandatoryTags : in.line.tags[t].ok

\* the event that carries the values the line was written from
EventOfLine(line) ==
    [CommandOnCPU |-> line.head.command, PIDOnCPU |-> line.head.pid.num,
     SourceIP |-> line.tags.saddr.canon, DestIP |-> line.tags.daddr.canon,
     SourcePort |-> line.tags.sport.num, DestPort |-> line.tags.dport.num,
     OldState |-> line.tags.oldstate.canon, NewState |-> line.tags.newstate.canon]

\* C15: toEvent on a valid line returns no error and the event whose command,
\* PID, ports, addresses and canonical states are the line's, with or without
\* the saddrv6 and daddrv6 tags.
C15_ValidLineGivesMatchingEvent ==
    (ParseDone(ToEventOps) /\ ValidLine(parsed.in)) =>
        /\ parsed.err = Nil
        /\ parsed.event = <<EventOfLine(parsed.in.line)>>

\* C15 witness: the newer parser returned the event of a valid line that has
\* the two IPv6 tags, a padded command with dashes in it and two states that
\* canonicalise by different rules.
C15_Witness ==
    /\ ParseDone({"traceFSEventParser_toEvent"})
    /\ ValidLine(parsed.in)
    /\ parsed.in.line.tags.v6
    /\ parsed.in.line.head.command = <<"-", "x", "-", "-", "y">>
    /\ parsed.event # NilEvent
    /\ parsed.event[1].OldState = <<"S", "Y", "N", "-", "S", "E", "N", "T">>
    /\ parsed.event[1].SourcePort = 44406

\* the line's family or protocol tag is present with a foreign value
ForeignFamilyOrProtocol(tags) ==
    \/ tags.family # Absent /\ tags.family.text # familyInet
    \/ tags.protocol # Absent /\ tags.protocol.text # protocolTCP

\* C16: toEvent returns exactly the irrelevant-event sentinel, unwrapped and
\* with no event, when the family tag is present and is not AF_INET or the
\* protocol tag is present and is not IPPROTO_TCP; a line without the two tags
\* is never answered with the sentinel: it yields its event when its mandatory
\* tags are well-formed and another error when one of them is not.
C16_IrrelevantIsExactlyTheSentinel ==
    (/\ ParseDone({"traceFSEventParser_toEvent"})
     /\ parsed.in.fixed
     /\ parsed.in.line.head.pid.ok) =>
        LET tags == parsed.in.line.tags
        IN  /\ ForeignFamilyOrProtocol(tags) =>
                /\ parsed.err = traceFSEventParser_errIrrelevantEvent
                /\ parsed.event = NilEvent
            /\ (tags.family = Absent /\ tags.protocol = Absent) =>
                /\ ~errorsIs(parsed.err, "irrelevant event")
                /\ IF \A t \in MandatoryTags : tags[t].ok
                     THEN parsed.err = Nil /\ parsed.event = <<EventOfLine(parsed.in.line)>>
                     ELSE parsed.err # Nil /\ parsed.event = NilEvent

\* C16 witness: a line with no family tag and a protocol that is not TCP, whose
\* mandatory tags are all well-formed, was answered with the sentinel.
C16_Witness ==
    /\ ParseDone({"traceFSEventParser_toEvent"})
    /\ parsed.in.fixed
    /\ parsed.in.line.head.pid.ok
    /\ parsed.in.line.tags.family = Absent
    /\ parsed.in.line.tags.protocol = Text(<<"I", "P", "P", "R", "O", "T", "O", "_", "F", "O", "O">>)
    /\ \A t \in MandatoryTags : parsed.in.line.tags[t].ok
    /\ parsed.err = traceFSEventParser_errIrrelevantEvent

(***************************************************************************)
(* The text of an error, for the claims about what a message names.        *)
(***************************************************************************)
\* the bytes of the messages toEvent gives its errors after the tag map is
\* built (part_001:88-150, main.go:326-388); an error of a library is written
\* by its name
messageBytes(msg) ==
    CASE msg = "source port not present in event" -> <<"s", "o", "u", "r", "c", "e", " ", "p", "o", "r", "t", " ", "n", "o", "t", " ", "p", "r", "e", "s", "e", "n", "t", " ", "i", "n", " ", "e", "v", "e", "n", "t">>
      [] msg = "converting source port to integer" -> <<"c", "o", "n", "v", "e", "r", "t", "i", "n", "g", " ", "s", "o", "u", "r", "c", "e", " ", "p", "o", "r", "t", " ", "t", "o", " ", "i", "n", "t", "e", "g", "e", "r">>
      [] msg = "destination port not present in event" -> <<"d", "e", "s", "t", "i", "n", "a", "t", "i", "o", "n", " ", "p", "o", "r", "t", " ", "n", "o", "t", " ", "p", "r", "e", "s", "e", "n", "t", " ", "i", "n", " ", "e", "v", "e", "n", "t">>
      [] msg = "converting destination port to integer" -> <<"c", "o", "n", "v", "e", "r", "t", "i", "n", "g", " ", "d", "e", "s", "t", "i", "n", "a", "t", "i", "o", "n", " ", "p", "o", "r", "t", " ", "t", "o", " ", "i", "n", "t", "e", "g", "e", "r">>
      [] msg = "source address not present in event" -> <<"s", "o", "u", "r", "c", "e", " ", "a", "d", "d", "r", "e", "s", "s", " ", "n", "o", "t", " ", "p", "r", "e", "s", "e", "n", "t", " ", "i", "n", " ", "e", "v", "e", "n", "t">>
      [] msg = "could not parse source address" -> <<"c", "o", "u", "l", "d", " ", "n", "o", "t", " ", "p", "a", "r", "s", "e", " ", "s", "o", "u", "r", "c", "e", " ", "a", "d", "d", "r", "e", "s", "s">>
      [] msg = "could not parse source IP address" -> <<"c", "o", "u", "l", "d", " ", "n", "o", "t", " ", "p", "a", "r", "s", "e", " ", "s", "o", "u", "r", "c", "e", " ", "I", "P", " ", "a", "d", "d", "r", "e", "s", "s">>
      [] msg = "destination address not present in event" -> <<"d", "e", "s", "t", "i", "n", "a", "t", "i", "o", "n", " ", "a", "d", "d", "r", "e", "s", "s", " ", "n", "o", "t", " ", "p", "r", "e", "s", "e", "n", "t", " ", "i", "n", " ", "e", "v", "e", "n", "t">>
      [] msg = "could not parse destination address" -> <<"c", "o", "u", "l", "d", " ", "n", "o", "t", " ", "p", "a", "r", "s", "e", " ", "d", "e", "s", "t", "i", "n", "a", "t", "i", "o", "n", " ", "a", "d", "d", "r", "e", "s", "s">>
      [] msg = "could not parse destination IP address" -> <<"c", "o", "u", "l", "d", " ", "n", "o", "t", " ", "p", "a", "r", "s", "e", " ", "d", "e", "s", "t", "i", "n", "a", "t", "i", "o", "n", " ", "I", "P", " ", "a", "d", "d", "r", "e", "s", "s">>
      [] msg = "old state not present in event" -> <<"o", "l", "d", " ", "s", "t", "a", "t", "e", " ", "n", "o", "t", " ", "p", "r", "e", "s", "e", "n", "t", " ", "i", "n", " ", "e", "v", "e", "n", "t">>
      [] msg = "canonicalising old state" -> <<"c", "a", "n", "o", "n", "i", "c", "a", "l", "i", "s", "i", "n", "g", " ", "o", "l", "d", " ", "s", "t", "a", "t", "e">>
      [] msg = "new state not present in event" -> <<"n", "e", "w", " ", "s", "t", "a", "t", "e", " ", "n", "o", "t", " ", "p", "r", "e", "s", "e", "n", "t", " ", "i", "n", " ", "e", "v", "e", "n", "t">>
      [] msg = "canonicalising new state" -> <<"c", "a", "n", "o", "n", "i", "c", "a", "l", "i", "s", "i", "n", "g", " ", "n", "e", "w", " ", "s", "t", "a", "t", "e">>
      [] msg = "strconv.ParseUint" -> <<"s", "t", "r", "c", "o", "n", "v", ".", "P", "a", "r", "s", "e", "U", "i", "n", "t">>
      [] msg = strconvErrSyntax -> <<"s", "t", "r", "c", "o", "n", "v", ".", "E", "r", "r", "S", "y", "n", "t", "a", "x">>
      [] msg = strconvErrRange -> <<"s", "t", "r", "c", "o", "n", "v", ".", "E", "r", "r", "R", "a", "n", "g", "e">>
      [] msg = errInvalidState -> <<"t", "c", "p", "s", "t", "a", "t", "e", ":", " ", "i", "n", "v", "a", "l", "i", "d", " ", "s", "t", "a", "t", "e">>

\* err.Error() of a chain built with fmt.Errorf("...: %w"): the messages
\* joined by ": "
RECURSIVE errorBytes(_)
errorBytes(err) ==
    IF err = Nil THEN <<>>
    ELSE IF Len(err) = 1 THEN messageBytes(err[1])
    ELSE messageBytes(err[1]) \o colonSpaceBytes \o errorBytes(Tail(err))

\* strings.Contains
stringsContains(s, substr) == bytesIndex(s, substr) # -1

\* the name the tests look for in the error of each mandatory tag
FieldName ==
    [sport |-> <<"s", "o", "u", "r", "c", "e", " ", "p", "o", "r", "t">>, dport |-> <<"d", "e", "s", "t", "i", "n", "a", "t", "i", "o", "n", " ", "p", "o", "r", "t">>,
     saddr |-> <<"s", "o", "u", "r", "c", "e", " ", "a", "d", "d", "r", "e", "s", "s">>, daddr |-> <<"d", "e", "s", "t", "i", "n", "a", "t", "i", "o", "n", " ", "a", "d", "d", "r", "e", "s", "s">>,
     oldstate |-> <<"o", "l", "d", " ", "s", "t", "a", "t", "e">>, newstate |-> <<"n", "e", "w", " ", "s", "t", "a", "t", "e">>]

\* the mandatory tags of the line that are absent or malformed
DefectiveTags(line) == {t \in MandatoryTags : ~line.tags[t].ok}

\* C17: when exactly one of the six mandatory tags of a line is absent or
\* malformed (and the line is not irrelevant), toEvent returns no event and an
\* error whose text contains the name of that tag's field and the name of no
\* other mandatory field.
C17_ErrorNamesTheField ==
    (/\ ParseDone(ToEventOps)
     /\ parsed.in.fixed
     /\ parsed.in.line.head.pid.ok
     /\ ~ForeignFamilyOrProtocol(parsed.in.line.tags)
     /\ Cardinality(DefectiveTags(parsed.in.line)) = 1) =>
        /\ parsed.event = NilEvent
        /\ parsed.err # Nil
        /\ \A t \in MandatoryTags :
               stringsContains(errorBytes(parsed.err), FieldName[t])
                   <=> t \in DefectiveTags(parsed.in.line)

(***************************************************************************)
(* Claims about state names, checked under SpecParse.                      *)
(***************************************************************************)
\* C18: canonicaliseState returns for each kernel mnemonic its canonical name
\* (TCP_CLOSE gives CLOSED, TCP_FIN_WAIT1 FIN-WAIT-1, TCP_FIN_WAIT2 FIN-WAIT-2,
\* TCP_SYN_RECV SYN-RECEIVED, any other the name without TCP_ and with hyphens
\* for underscores), which is a member of the enumeration; a value that leads
\* to no member, such as FOO_BAR, fails; and the two states of every event
\* toEvent returns are members of the enumeration.
C18_StatesAreCanonical ==
    /\ ParseDone({"canonicaliseState"}) =>
          LET oldstate == parsed.in.line.tags.oldstate
          IN  /\ oldstate \in KernelStates =>
                    /\ parsed.err = Nil
                    /\ parsed.state = oldstate.canon
                    /\ parsed.state \in TCPStates
              /\ oldstate \in NoStates \cup {Malformed(<<"F", "O", "O", "_", "B", "A", "R">>)} =>
                    /\ parsed.err # Nil
                    /\ parsed.state = <<>>
              /\ parsed.err = Nil => parsed.state \in TCPStates
    /\ (ParseDone(ToEventOps) /\ parsed.event # NilEvent) =>
          /\ parsed.event[1].OldState \in TCPStates
          /\ parsed.event[1].NewState \in TCPStates

\* C18 witness: canonicaliseState turned TCP_CLOSE into CLOSED.
C18_Witness ==
    /\ ParseDone({"canonicaliseState"})
    /\ parsed.in.line.tags.oldstate.text = <<"T", "C", "P", "_", "C", "L", "O", "S", "E">>
    /\ parsed.err = Nil
    /\ parsed.state = <<"C", "L", "O", "S", "E", "D">>

(***************************************************************************)
(* Claims about the field parser, checked under SpecParse.                 *)
(***************************************************************************)
NextFieldOps == {"slicingFieldParser_nextField", "main_nextField"}

GetTaggedFieldsOps == {"slicingFieldParser_getTaggedFields", "main_getTaggedFields"}

\* C21: when the separator occurs in the cursor after at least one byte,
\* nextField returns without error the bytes before the first occurrence and
\* leaves as the cursor the bytes after the whole separator, for the
\* separators of one byte and of two: the cursor it was given is the field,
\* the separator and the cursor it leaves, in that order.
C21_NextFieldAdvancesPastSeparator ==
    (ParseDone(NextFieldOps) /\ bytesIndex(parsed.in.str, parsed.sep) > 0) =>
        /\ parsed.err = Nil
        /\ parsed.in.str = parsed.field \o parsed.sep \o parsed.str
        /\ bytesIndex(parsed.field \o parsed.sep, parsed.sep) = Len(parsed.field)


\* the name of each tag as it is written in a line
TagNames ==
    [family |-> <<"f", "a", "m", "i", "l", "y">>, protocol |-> <<"p", "r", "o", "t", "o", "c", "o", "l">>, sport |-> <<"s", "p", "o", "r", "t">>, dport |-> <<"d", "p", "o", "r", "t">>,
     saddr |-> <<"s", "a", "d", "d", "r">>, daddr |-> <<"d", "a", "d", "d", "r">>, oldstate |-> <<"o", "l", "d", "s", "t", "a", "t", "e">>, newstate |-> <<"n", "e", "w", "s", "t", "a", "t", "e">>]

\* the pairs a run of tags written from a line holds
PairsOfLine(line) ==
    LET present == {t \in DOMAIN TagNames : line.tags[t] # Absent}
        written == {<<TagNames[t], line.tags[t].text>> : t \in present}
    IN  IF line.tags.v6
          THEN written \cup {<<<<"s", "a", "d", "d", "r", "v", "6">>, <<":", ":", "f", "f", "f", "f", ":", "1", "0", ".", "0", ".", "0", ".", "1">>>>, <<<<"d", "a", "d", "d", "r", "v", "6">>, <<":", ":", "f", "f", "f", "f", ":", "1", "0", ".", "0", ".", "0", ".", "2">>>>}
          ELSE written

\* the pairs a map holds
PairsOfMap(fields) == {<<k, fields[k]>> : k \in DOMAIN fields}

\* C22: for a well-formed run of tags k1=v1 k2=v2 ... kn=vn, getTaggedFields
\* returns without error a map that holds exactly those pairs, and leaves the
\* cursor empty.
C22_TagRunGivesMapAndEmptyCursor ==
    /\ (ParseDone(GetTaggedFieldsOps) /\ parsed.in.fixed
            /\ PairsOfLine(parsed.in.line) # {}) =>
          /\ parsed.err = Nil
          /\ PairsOfMap(parsed.fields) = PairsOfLine(parsed.in.line)
          /\ parsed.str = <<>>
    /\ (ParseDone(GetTaggedFieldsOps)
            /\ parsed.in.str = <<"f", "o", "o", "=", "h", "e", "l", "l", "o", " ", "b", "a", "r", "=", "w", "o", "r", "l", "d", " ", "b", "a", "z", "=", "1", "2", "3">>) =>
          /\ parsed.err = Nil
          /\ PairsOfMap(parsed.fields)
                = {<<<<"f", "o", "o">>, <<"h", "e", "l", "l", "o">>>>, <<<<"b", "a", "r">>, <<"w", "o", "r", "l", "d">>>>, <<<<"b", "a", "z">>, <<"1", "2", "3">>>>}
          /\ parsed.str = <<>>


\* C23: nextField fails with UnexpectedEndOfInput when the cursor is empty, in
\* either mode, and when the separator is absent and more fields are expected;
\* it fails with EmptyField when the token before the separator has no bytes;
\* getTaggedFields returns an error for foo, foo=, "foo= " and "foo= bar=baz",
\* and a map it returns holds no empty tag and no empty value.
C23_EmptyCursorAndEmptyTokenFail ==
    /\ ParseDone(NextFieldOps) =>
          LET idx == bytesIndex(parsed.in.str, parsed.sep)
          IN  /\ parsed.in.str = <<>> => parsed.err = <<ioErrUnexpectedEOF>>
              /\ (parsed.in.str # <<>> /\ idx = 0) => parsed.err = <<errEmptyField>>
              /\ (parsed.in.str # <<>> /\ idx = -1 /\ parsed.more) =>
                    parsed.err = <<ioErrUnexpectedEOF>>
              /\ parsed.err \in {Nil, ioEOF} => parsed.field # <<>>
    /\ ParseDone(GetTaggedFieldsOps) =>
          /\ TagCursor(parsed.in) \in {<<"f", "o", "o">>, <<"f", "o", "o", "=">>, <<"f", "o", "o", "=", " ">>, <<"f", "o", "o", "=", " ", "b", "a", "r", "=", "b", "a", "z">>} =>
                parsed.err # Nil
          /\ parsed.err = Nil =>
                \A k \in DOMAIN parsed.fields : k # <<>> /\ parsed.fields[k] # <<>>

(***************************************************************************)
(* Claims about the tracepoint deducer, checked under SpecDeduce.          *)
(***************************************************************************)
\* C24: deduceTracepoint returns sock/inet_sock_set_state whenever that path
\* exists (whatever the state of tcp/tcp_set_state, which it does not probe);
\* returns tcp/tcp_set_state when the newer path is not found and the older
\* exists; fails when neither is found; fails with the probe's error, without
\* probing the other path, when the probe of the newer path hits an error
\* other than not-found; fails with the probe's error when the probe of the
\* older path does; and fails with the retriever's error, probing nothing, when
\* the mount point cannot be retrieved.
C24_DeduceTracepoint ==
    deduced.pc = "done" =>
        LET newer == deduced.stat["sock/inet_sock_set_state"]
            older == deduced.stat["tcp/tcp_set_state"]
            failedWith(e) == /\ deduced.tracepoint = ""
                             /\ deduced.err # Nil
                             /\ errorsIs(deduced.err, e[1])
        IN  IF deduced.retrieved.err # Nil
              THEN failedWith(deduced.retrieved.err) /\ deduced.probes = <<>>
            ELSE IF newer = Nil
              THEN /\ deduced.tracepoint = "sock/inet_sock_set_state"
                   /\ deduced.err = Nil
                   /\ deduced.probes = <<"sock/inet_sock_set_state">>
            ELSE IF newer # errENOENT
              THEN failedWith(newer) /\ deduced.probes = <<"sock/inet_sock_set_state">>
            ELSE IF older = Nil
              THEN deduced.tracepoint = "tcp/tcp_set_state" /\ deduced.err = Nil
            ELSE IF older # errENOENT
              THEN failedWith(older)
            ELSE /\ deduced.tracepoint = ""
                 /\ deduced.err # Nil
                 /\ \A e \in StatResults \ {Nil} : ~errorsIs(deduced.err, e[1])

\* C24 witness: the newer path was not readable and the older one exists; the
\* call failed with the permission error and never asked for the older path.
C24_Witness ==
    /\ deduced.pc = "done"
    /\ deduced.retrieved.err = Nil
    /\ deduced.stat["sock/inet_sock_set_state"] = errEACCES
    /\ deduced.stat["tcp/tcp_set_state"] = Nil
    /\ errorsIs(deduced.err, "EACCES")
    /\ deduced.probes = <<"sock/inet_sock_set_state">>


(***************************************************************************)
(* Claims about what toEvent returns, checked under SpecParse.             *)
(***************************************************************************)
\* C25: toEvent returns either one fully populated Event and a nil error, or no
\* Event and an error that is not nil: never neither, never both; for a line
\* whose family or protocol is foreign the error is not nil.
C25_EventXorError ==
    ParseDone(ToEventOps) =>
        /\ \/ /\ parsed.err = Nil
              /\ Len(parsed.event) = 1
              /\ parsed.event[1].CommandOnCPU # <<>>
              /\ parsed.event[1].SourceIP # NilIP
              /\ parsed.event[1].DestIP # NilIP
              /\ parsed.event[1].SourcePort \in 0..65535
              /\ parsed.event[1].DestPort \in 0..65535
              /\ parsed.event[1].OldState \in TCPStates
              /\ parsed.event[1].NewState \in TCPStates
           \/ /\ parsed.err # Nil
              /\ parsed.event = NilEvent
        /\ (/\ parsed.in.fixed
            /\ parsed.in.line.head.pid.ok
            /\ ForeignFamilyOrProtocol(parsed.in.line.tags)) => parsed.err # Nil

\* C26: sport and dport are accepted only as base-10 integers in 0..65535.  A
\* value of 65536 or more, a negative value or a value that is no number makes
\* toEvent fail with the conversion error of that port, and the ports of a
\* returned Event are the numbers written in the tags.
C26_PortsAreSixteenBitDecimals ==
    (/\ ParseDone(ToEventOps)
     /\ parsed.in.fixed
     /\ parsed.in.line.head.pid.ok
     /\ ~ForeignFamilyOrProtocol(parsed.in.line.tags)) =>
        LET sport == parsed.in.line.tags.sport
            dport == parsed.in.line.tags.dport
            conversionError(msg) ==
                /\ parsed.event = NilEvent
                /\ Len(parsed.err) = 3
                /\ parsed.err[1] = msg
                /\ parsed.err[3] \in {strconvErrSyntax, strconvErrRange}
        IN  /\ (sport # Absent /\ ~sport.ok) =>
                  conversionError("converting source port to integer")
            /\ (sport.ok /\ dport # Absent /\ ~dport.ok) =>
                  conversionError("converting destination port to integer")
            /\ parsed.event # NilEvent =>
                  /\ sport.ok /\ dport.ok
                  /\ parsed.event[1].SourcePort = sport.num
                  /\ parsed.event[1].DestPort = dport.num
                  /\ sport.num \in 0..65535 /\ dport.num \in 0..65535

\* C26 witness: a line with sport=65535 and dport=65536 was refused for its
\* destination port, out of range.
C26_Witness ==
    /\ ParseDone({"traceFSEventParser_toEvent"})
    /\ parsed.in.fixed
    /\ parsed.in.line.tags.sport.text = <<"6", "5", "5", "3", "5">>
    /\ parsed.in.line.tags.dport.text = <<"6", "5", "5", "3", "6">>
    /\ parsed.event = NilEvent
    /\ parsed.err = <<"converting destination port to integer", "strconv.ParseUint",
                      strconvErrRange>>

(***************************************************************************)
(* Claims about the closed flag and its mutex, checked under Spec and      *)
(* SpecLive.                                                               *)
(***************************************************************************)
\* C27: Close() sets the closed flag while it holds the mutex, before it closes
\* the pipe and before it removes the instance: whenever the pipe is closed or
\* the instance is gone the flag is set, and an Event() whose read failed on
\* the pipe Close() closed finds the flag set at the check that follows.
C27_FlagSetBeforePipeClosed ==
    /\ cl.pc = "set" => closedMutex = "closer"
    /\ cl.pc \in {"pipe", "instance"} => closed
    /\ tracePipe = "closed" => closed
    /\ ~instance => closed
    /\ (ev.pc \in {"errlock", "errcheck"} /\ ev.byClose) => closed
    /\ (EventReturned /\ evRet.path = "scanerr" /\ evRet.byClose) => evRet.closedAtCheck

\* C27 witness: an Event() that was blocked in the read when Close() was called
\* had its read failed by the closing of the pipe and saw the flag set.
C27_Witness ==
    /\ EventReturned
    /\ evRet.path = "scanerr"
    /\ evRet.waiting
    /\ evRet.byClose
    /\ evRet.closedAtCheck

\* C28: the mutex is held only between a Lock() and the return or Unlock()
\* that follows it: once Event() or Close() has returned the mutex is free.
C28_MutexReleasedOnEveryReturn ==
    (ev.pc \notin {"check", "errcheck"} /\ cl.pc # "set") => closedMutex = "free"

\* C29: Event() does not hold the mutex while it reads the pipe, and a Close()
\* that waits for the mutex while Event() is blocked in a read of the empty
\* pipe returns, whether or not a line arrives.
C29_CloseNotBlockedByReader ==
    /\ [](ev.pc = "scan" => closedMutex # "reader")
    /\ (cl.pc = "lock" /\ BlockedInRead) ~> (cl.pc = "idle" /\ clRet.n = cl.n)

\* C29 witness: Close() has returned, Event() is still in the call that was
\* blocked in the read when Close() was called, and the kernel wrote no line.
C29_Witness ==
    /\ clRet.n = 1
    /\ cl.pc = "idle"
    /\ ev.waiting
    /\ ev.pc = "scan"
    /\ nproduced = 0
    /\ tracePipe = "closed"

(***************************************************************************)
(* Claims about the order of toEvent's steps, checked under SpecParse.     *)
(***************************************************************************)
\* the order in which toEvent looks at the mandatory tags
TagOrder == <<"sport", "dport", "saddr", "daddr", "oldstate", "newstate">>

\* the first step of toEvent that a line of the fixed format fails, or "none"
FirstFailingStep(line) ==
    IF ~line.head.pid.ok THEN "pid"
    ELSE IF ForeignFamilyOrProtocol(line.tags) THEN "irrelevant"
    ELSE IF DefectiveTags(line) = {} THEN "none"
    ELSE TagOrder[CHOOSE i \in DOMAIN TagOrder :
                     /\ TagOrder[i] \in DefectiveTags(line)
                     /\ \A j \in 1..(i - 1) : TagOrder[j] \notin DefectiveTags(line)]

\* C30: toEvent reports the earliest failing step in the order command, PID,
\* the two skipped fields, the run of tags, family and protocol, sport, dport,
\* saddr, daddr, oldstate, newstate.  A line with a foreign family or protocol
\* is answered with the irrelevant-event sentinel whatever its mandatory tags;
\* a malformed PID is reported before that; of several defective mandatory
\* tags the first is the one named; and a line with family=AF_UNIX whose
\* command, PID, skipped fields or run of tags is malformed gets the error of
\* that step and not the sentinel.
C30_EarliestFailingStepReported ==
    ParseDone({"traceFSEventParser_toEvent"}) =>
        /\ parsed.in.fixed =>
              LET step == FirstFailingStep(parsed.in.line)
              IN  /\ step = "pid" => /\ parsed.event = NilEvent
                                     /\ parsed.err # Nil
                                     /\ parsed.err[1] = "converting PID to integer"
                  /\ step = "irrelevant" =>
                        /\ parsed.event = NilEvent
                        /\ parsed.err = traceFSEventParser_errIrrelevantEvent
                  /\ step = "none" => parsed.err = Nil /\ parsed.event # NilEvent
                  /\ step \in MandatoryTags =>
                        /\ parsed.event = NilEvent
                        /\ parsed.err # Nil
                        /\ \A t \in MandatoryTags :
                               stringsContains(errorBytes(parsed.err), FieldName[t])
                                   <=> t = step
        /\ parsed.in.str \in ForeignOddLines =>
              /\ parsed.event = NilEvent
              /\ parsed.err # Nil
              /\ ~errorsIs(parsed.err, "irrelevant event")
              /\ parsed.err[1] =
                    CASE parsed.in.str \in {<<"s", "h", "0", " ", "[", "0", "0", "0", "]", " ", "9", ".", "5", ":", " ", "t", "p", ":", " ", "f", "a", "m", "i", "l", "y", "=", "A", "F", "_", "U", "N", "I", "X">>,
                                            <<"s", "h", "-", "0", " ", "[", "0", "0", "0", "]", " ", "9", ".", "5", " ", "t", "p", " ", "f", "a", "m", "i", "l", "y", "=", "A", "F", "_", "U", "N", "I", "X">>}
                           -> "parsing command from event"
                      [] parsed.in.str = <<"s", "h", "-", "x", " ", "[", "0", "0", "0", "]", " ", "9", ".", "5", ":", " ", "t", "p", ":", " ", "f", "a", "m", "i", "l", "y", "=", "A", "F", "_", "U", "N", "I", "X">>
                           -> "converting PID to integer"
                      [] parsed.in.str = <<"s", "h", "-", "0", " ", "[", "0", "0", "0", "]", " ", "9", ".", "5", ":", " ", "f", "a", "m", "i", "l", "y", "=", "A", "F", "_", "U", "N", "I", "X">>
                           -> "skipping tracepoint from event"
                      [] OTHER -> "parsing tagged fields"

\* C30 witness: a line with family=AF_UNIX and no sport tag was answered with
\* the sentinel and not with the error of the missing source port.
C30_Witness ==
    /\ ParseDone({"traceFSEventParser_toEvent"})
    /\ parsed.in.fixed
    /\ parsed.in.line.head.pid.ok
    /\ parsed.in.line.tags.family = Text(<<"A", "F", "_", "U", "N", "I", "X">>)
    /\ parsed.in.line.tags.sport = Absent
    /\ parsed.err = traceFSEventParser_errIrrelevantEvent

(***************************************************************************)
(* Claims about panics in the tokenizer, checked under SpecParse.          *)
(***************************************************************************)
\* the line has a ": ", a dash before it that is not its first byte, and only
\* spaces before that dash: the loop that strips the padding runs off the end
CommandOnlySpaces(str) ==
    LET c == bytesIndex(str, colonSpaceBytes)
        d == LastDashBefore(str, c)
    IN  c # -1 /\ d > 0 /\ TrimLeftSpaces(SubSeq(str, 1, d)) = <<>>

\* C31: toEvent returns on every line, with an Event and no error or with an
\* error and no Event; on the empty line, a line of spaces, a line that ends
\* after a separator and a line without separators it returns an error; and
\* where the command is made of spaces only, the index out of range in
\* parseCommand comes back as an error that wraps the value of the panic.
C31_ToEventIsTotal ==
    ParseDone({"traceFSEventParser_toEvent"}) =>
        /\ \/ parsed.event # NilEvent /\ parsed.err = Nil
           \/ parsed.event = NilEvent /\ parsed.err # Nil
        /\ parsed.in.str \in {<<>>, <<" ", " ", " ">>, <<"s", "h", "-", "0", ":", " ">>, <<"s", "h", "-", "0", " ", "[", "0", "0", "0", "]", " ", "9", ".", "5", ":", " ", "t", "p", ":", " ">>,
                              <<"s", "h", "-", "0", " ", "[", "0", "0", "0", "]", " ", "9", ".", "5", ":", " ", "t", "p", ":", " ", "s", "p", "o", "r", "t", "=">>, <<"s", "h", "-", "0">>, <<"f", "o", "o">>, <<"-">>}
              => parsed.err # Nil
        /\ CommandOnlySpaces(parsed.in.str) =>
              /\ parsed.event = NilEvent
              /\ parsed.err = <<"parsing command from event", "parsing next field",
                                errIndexOutOfRange>>

\* C31 witness: toEvent was given a line whose command field is two spaces and
\* returned the error that wraps the index out of range.
C31_Witness ==
    /\ ParseDone({"traceFSEventParser_toEvent"})
    /\ parsed.in.str = <<" ", " ", "-", "0", " ", "[", "0", "0", "0", "]", " ", "9", ".", "5", ":", " ", "t", "p", ":", " ", "s", "p", "o", "r", "t", "=", "8", "0">>
    /\ CommandOnlySpaces(parsed.in.str)
    /\ parsed.event = NilEvent
    /\ errorsIs(parsed.err, errIndexOutOfRange)

(***************************************************************************)
(* Claims about the lifecycle of the tracing instance, checked under       *)
(* SpecTI.                                                                 *)
(***************************************************************************)
\* the k-th call on the instance was an enable() that returned no error
EnableSucceededAt(k) == tiCalls[k] = "enable" /\ tiErrs[k] = Nil

\* the k-th call was a disable() that returned no error after an enable() had
\* succeeded: the instance is Disabled from then on
DisabledAt(k) ==
    /\ tiCalls[k] = "disable"
    /\ tiErrs[k] = Nil
    /\ \E i \in 1..(k - 1) : EnableSucceededAt(i)

\* C32: open() returns no error only when an enable() has succeeded before it
\* and no disable() has removed the instance since the first such enable():
\* once Disabled, no sequence of calls makes open() succeed again.
C32_OpenOnlyWhileEnabled ==
    LET k == Len(tiCalls)
    IN  (k > 0 /\ tiCalls[k] = "open" /\ tiErrs[k] = Nil) =>
            /\ \E i \in 1..(k - 1) : EnableSucceededAt(i)
            /\ ~\E j \in 1..(k - 1) : DisabledAt(j)

\* the handles the instance has opened and not closed
OpenHandles == {h \in DOMAIN files : files[h].open}

\* C33: the instance holds at most one open pipe handle at any time, and after
\* a close() that returned no error none of the handles it opened is open.
C33_AtMostOneOpenHandle ==
    /\ Cardinality(OpenHandles) <= 1
    /\ (tiRet.op = "close" /\ tiRet.err = Nil /\ ~tiRet.panic) => OpenHandles = {}

\* C34: once enable() has assigned the instance its path, no call changes it,
\* and after a disable() that returned no error no directory that the
\* instance created is left.
C34_PathAssignedOnce ==
    [][/\ ti.path # NoPath => ti'.path = ti.path
       /\ (tiRet'.op = "disable" /\ tiRet'.err = Nil) =>
              \A p \in InstancePaths : ~DirExists(fs', p)]_vars

\* C35: an instance directory is owned by exactly one tracing instance: a
\* disable() on one instance, made while the other instance is enabled,
\* leaves the directory and the switches of the other instance as they were.
C35_DisableLeavesOtherInstance ==
    [][(pair'.n = pair.n + 1 /\ pair'.op.name = "disable") =>
          LET other == pair.inst[OtherInstance(pair'.op.who)]
          IN  other.enabled =>
                 /\ DirExists(fs', other.ti.path)
                 /\ fs'[other.ti.path] = fs[other.ti.path]]_vars

(***************************************************************************)
(* Claims about the loop of getTaggedFields, checked under SpecFieldsLive. *)
(***************************************************************************)
\* C36: getTaggedFields terminates on every finite input: each iteration of
\* its loop either returns (an error, or the map at the end of the fields) or
\* leaves the cursor strictly shorter, and the loop entered on a cursor
\* returns after at most as many iterations as the cursor has bytes.
C36_GetTaggedFieldsTerminates ==
    /\ [][loop.pc = "loop" =>
             \/ loop'.pc = "done"
             \/ loop'.pc = "loop" /\ Len(loop'.str) < Len(loop.str)]_vars
    /\ (loop.pc = "loop" ~> loop.pc = "done")

\* a loop of two iterations has returned the map of both pairs
C36_Witness ==
    /\ loop.pc = "done"
    /\ loop.in = <<"a", "=", "a", " ", "=">>
    /\ loop.iter = 2
    /\ loop.err = Nil
    /\ DOMAIN loop.fields = {<<"a">>, <<>>}

(***************************************************************************)
(* Claims about the parser of /proc/mounts, checked under SpecMounts.      *)
(***************************************************************************)
MountsDone == mounts.pc = "done"

\* the space-separated fields of a line, as strings.Split(line, " ") gives them
RECURSIVE SplitFields(_)
SplitFields(line) ==
    LET idx == bytesIndex(line, spaceBytes)
    IN  IF idx = -1
          THEN <<line>>
          ELSE <<SubSeq(line, 1, idx)>> \o SplitFields(SubSeq(line, idx + 2, Len(line)))

\* the first line, in input order, whose first field is the filesystem type;
\* 0 when there is none
FirstMatchingLine(lines, fsType) ==
    LET hits == {i \in DOMAIN lines : SplitFields(lines[i])[1] = fsType}
    IN  IF hits = {} THEN 0 ELSE CHOOSE i \in hits : \A j \in hits : i <= j

\* what the injected field parser returns for the device of a line, and for
\* the mount point that follows the device
DeviceRead(fp, line) == fieldParser_nextField(fp, line, spaceBytes, TRUE)

MountpointRead(fp, line) ==
    fieldParser_nextField(fp, DeviceRead(fp, line).str, spaceBytes, TRUE)

\* the first line on whose device the field parser fails; 0 when there is none
FirstDeviceFailure(fp, lines) ==
    LET hits == {i \in DOMAIN lines : DeviceRead(fp, lines[i]).err # Nil}
    IN  IF hits = {} THEN 0 ELSE CHOOSE i \in hits : \A j \in hits : i <= j

\* C37: getFirstMountpoint returns the second space-separated field of the
\* first line whose first field is the requested filesystem type, skipping
\* the lines of other devices before it; it returns an error when no line
\* matches, when the matching line has no mount point field, when the reader
\* fails and when the field parser fails, and it wraps the error of the
\* reader and of the field parser.
C37_GetFirstMountpoint ==
    MountsDone =>
        LET lines == mounts.reader.lines
            fp == mounts.fieldParser
            m == FirstMatchingLine(lines, mounts.fsType)
            f == FirstDeviceFailure(fp, lines)
            real == fp.kind # "mockFieldParser"
            reached == m # 0 /\ (f = 0 \/ m < f)
        IN  /\ mounts.err = Nil =>
                  /\ real /\ m # 0
                  /\ Len(SplitFields(lines[m])) >= 2
                  /\ mounts.mountpoint = SplitFields(lines[m])[2]
            /\ (real /\ reached /\ MountpointRead(fp, lines[m]).err = Nil) =>
                  /\ mounts.err = Nil
                  /\ mounts.mountpoint = SplitFields(lines[m])[2]
            /\ m = 0 => mounts.err # Nil
            /\ (m # 0 /\ (\/ Len(SplitFields(lines[m])) = 1
                         \/ SplitFields(lines[m]) = <<mounts.fsType, <<>>>>)) =>
                  mounts.err # Nil
            /\ (m = 0 /\ f = 0 /\ mounts.reader.err # Nil) =>
                  /\ errorsIs(mounts.err, mockReaderError[1])
                  /\ Len(mounts.err) = 1 + Len(mockReaderError)
            /\ (f # 0 /\ (m = 0 \/ f <= m)) =>
                  mounts.err = Wrap("getting device from mount", DeviceRead(fp, lines[f]).err)
            /\ (real /\ reached /\ MountpointRead(fp, lines[m]).err # Nil) =>
                  mounts.err = Wrap("getting mountpoint from mount",
                                    MountpointRead(fp, lines[m]).err)

\* the mount point of the second line is returned after a line of another
\* device has been skipped
C37_Witness ==
    /\ MountsDone
    /\ mounts.op = "procMountsMountsParser_getFirstMountpoint"
    /\ mounts.fieldParser.kind = "slicingFieldParser"
    /\ mounts.fsType = tracefsBytes
    /\ mounts.reader.lines = <<<<"p", "r", "o", "c", " ", "/", "p", "r", "o", "c", " ", "p", "r", "o", "c", " ", "r", "w", " ", "0", " ", "0">>, <<"t", "r", "a", "c", "e", "f", "s", " ", "/", "t", " ", "t", "r", "a", "c", "e", "f", "s", " ", "r", "w", " ", "0", " ", "0">>>>
    /\ mounts.err = Nil
    /\ mounts.mountpoint = <<"/", "t">>
====
